---- MODULE Spec2Model ----
(***************************************************************************)
(* Verification model of the scraper repository.                           *)
(*                                                                         *)
(*   SpecExtract : AdidasScraper._extract_products (src/scraper3.py), the   *)
(*                 three extraction strategies and the dedup loop.         *)
(*   Spec        : scrape_fashion_site and the scrape button handler       *)
(*                 (src/scraper.py), the pagination loop.                  *)
(*   SpecLive    : Spec with weak fairness of the loop body.               *)
(*   SpecDetect  : profile resolution of scrape_fashion_site: the select   *)
(*                 box, detect_site_type and the bundle the loop indexes.  *)
(*   SpecSessions: two browser sessions running the script of              *)
(*                 src/scraper.py at the same time.                        *)
(*   SpecAsos    : scrape_asos_data (src/scraper8.py), the response        *)
(*                 handler, the CAPTCHA check and the DOM loop.            *)
(*   SpecPage    : one page of scrape_fashion_site: container selection,   *)
(*                 the fallback selectors and the per-item extraction.     *)
(*   SpecImage   : image URL extraction of src/scraper.py and of           *)
(*                 src/scraper3.py.                                        *)
(*   SpecPopups  : popup dismissal and scrolling of src/scraper.py.        *)
(*   SpecDriver  : the webdriver of AdidasScraper (src/scraper3.py).       *)
(*   SpecAgent   : AdidasAgent.start_interactive (src/scraper3.py).        *)
(***************************************************************************)
EXTENDS Integers, Sequences, FiniteSets, TLC

VARIABLES
    \* ---- AdidasScraper._extract_products (src/scraper3.py) ----
    xpc,              \* position inside _extract_products
    json_products,    \* result of _extract_from_json
    html_products,    \* result of _extract_from_html
    js_products,      \* result of _extract_with_js
    products,         \* the concatenated drafts
    unique_products,  \* the returned, deduplicated list
    ran,              \* the strategies this call of _extract_products has run
    ended,            \* how each strategy of this call ended
    alone,            \* strategies that were the only one to fail in a finished call
    \* ---- scrape_fashion_site and the scrape button (src/scraper.py) ----
    spc,              \* position of the script run / of scrape_fashion_site
    bound_names,      \* module-level names the script run has defined so far
    pagination,       \* sidebar checkbox "Enable pagination"
    max_pages,        \* sidebar number input "Maximum pages to scrape"
    browser_open,     \* the Playwright browser is launched and not closed
    current_url,      \* the page the browser shows
    pages_scraped,    \* the loop counter
    all_data,         \* the accumulator of scrape_fashion_site
    next_resolved,    \* the next_page selector resolved to an element in this run
    next_page_link,   \* what the last query of the next_page selector found
    goto_failed_at,   \* page number whose navigation timed out (0: none)
    status,           \* what the handler told the user
    scraped_data,     \* st.session_state['scraped_data']
    history,          \* the contents of scrape_history.json
    \* ---- profile resolution of scrape_fashion_site (src/scraper.py) ----
    dpc,              \* position of the run: at the button, on a page, returned
    site_profile,     \* sidebar select box "Select a site profile"
    selectors,        \* the bundle the handler passes to scrape_fashion_site
    current_selectors,\* the bundle the loop indexes
    detected_first,   \* result of the detect_site_type call of line 836
    detected_type,    \* the local detected_type after line 845
    detect_calls,     \* calls of detect_site_type in this run
    page_content,     \* page.content() of the page shown, as text fragments
    page_url,         \* page.url of the page shown, as text fragments
    detect_input,     \* the content and url detect_site_type read in this run
    queried,          \* the selectors looked up in current_selectors in this run
    prev_detection,   \* the detection of the latest earlier run and its settings
    \* ---- concurrent script runs of src/scraper.py ----
    session,          \* per browser session: position, namespace, result, status
    \* ---- scrape_asos_data (src/scraper8.py) ----
    apc,              \* the await scrape_asos_data is suspended at
    data,             \* the list shared by the DOM loop and handle_response
    captcha,          \* the loaded page shows a robot challenge
    shots,            \* the screenshots requested
    scrolls,          \* scroll-and-wait cycles done
    stalled_at,       \* first cycle after which the page height had not grown (0: none)
    dom_left,         \* the elements the DOM loop still has to process
    dom_done,         \* elements the DOM loop has processed
    responses,        \* API responses handle_response has been called for
    page_open,        \* the browser of scrape_asos_data is open
    csv,              \* the rows written to fashion_data.csv (<<>>: not written)
    \* ---- one iteration of the page loop of scrape_fashion_site (src/scraper.py) ----
    ppc,              \* position inside the iteration of `while True`
    matched,          \* how many containers each container selector matches on the page
    tried,            \* the container selectors queried, in order
    page_items,       \* the element handles the item loop iterates over
    items_read,       \* the containers the item loop has read, in order
    page_data,        \* the records of the page
    \* ---- image URL extraction (src/scraper.py, src/scraper3.py) ----
    img_elem,         \* the image element found inside a container
    img_url,          \* img_url of scrape_fashion_site for it ("unset": not computed)
    image_url,        \* image_url of _extract_from_html for it ("unset": not computed)
    \* ---- popup dismissal of scrape_fashion_site (src/scraper.py) ----
    upc,              \* position of the iteration: at the popups, at the scroll, at the item query
    popup_page,       \* the dismiss controls the page shows and the one whose click fails
    clicked,          \* the controls clicked, in order
    \* ---- AdidasScraper's webdriver and AdidasAgent.start_interactive (src/scraper3.py) ----
    driver,           \* self.driver: 0 for None, else the number of the webdriver instance
    live,             \* the webdriver instances created and not quit
    created,          \* webdriver instances created so far
    calls,            \* the calls made on the scraper and how each ended
    agent_pc,         \* position of start_interactive: in the loop, at the clean-up, returned
    running,          \* the loop variable of start_interactive
    iterations,       \* what each loop iteration read and how it went
    close_calls       \* calls of close_driver made by start_interactive

xvars == <<xpc, json_products, html_products, js_products, products, unique_products,
           ran, ended, alone>>

bvars == <<spc, bound_names, pagination, max_pages, browser_open, current_url,
           pages_scraped, all_data, next_resolved, next_page_link, goto_failed_at,
           status, scraped_data, history>>

dvars == <<dpc, site_profile, selectors, current_selectors, detected_first,
           detected_type, detect_calls, page_content, page_url, detect_input, queried,
           prev_detection>>

avars == <<apc, data, captcha, shots, scrolls, stalled_at, dom_left, dom_done, responses,
           page_open, csv>>

pvars == <<ppc, matched, tried, page_items, items_read, page_data>>

ivars == <<img_elem, img_url, image_url>>

uvars == <<upc, popup_page, clicked>>

gvars == <<driver, live, created, calls, agent_pc, running, iterations, close_calls>>

vars == <<xvars, bvars, dvars, session, avars, pvars, ivars, uvars, gvars>>

\* ---------------------------------------------------------------------------
\* Bounds of the model
\* ---------------------------------------------------------------------------
MaxJson == 2      \* products in an embedded JSON payload
MaxHtml == 2      \* product cards matched in the HTML
MaxJs   == 1      \* products returned by the page script
MaxItems == 2     \* item containers matched on one listing page
MaxPagesBound == 2  \* largest "Maximum pages to scrape" explored (the input allows 1..20)
MaxApiProducts == 2 \* products in one intercepted API response
MaxResponses == 2   \* intercepted API responses in one run
MaxRuns == 2        \* script runs of one browser session
MaxDom == 2         \* product elements matched in the DOM
max_items == 2      \* the item cap of scrape_asos_data (10 in the source), scaled down
MaxContainers == 2  \* elements one container selector matches on a page
MaxControls == 1    \* controls one dismiss selector matches on a page
MaxCalls == 3       \* calls made on one AdidasScraper
MaxInputs == 3      \* command lines start_interactive reads

SeqsUpTo(S, n) == UNION { [1..k -> S] : k \in 0..n }

\* ===========================================================================
\* AdidasScraper (src/scraper3.py)
\* ===========================================================================

\* self.base_url, as typed by the user ("https://www.adidas.com/us").
Origin   == "https://shop"
base_url == Origin \o "/us"

\* What a link selector gives: no element, an element without href, or an
\* element whose href is site-relative or absolute (starts with http).
NoElement   == [kind |-> "absent", path |-> ""]
NoHref      == [kind |-> "none", path |-> ""]
EmptyHref   == [kind |-> "empty", path |-> ""]
RelHref(p)  == [kind |-> "rel",  path |-> p]
AbsHref(u)  == [kind |-> "abs",  path |-> u]

\* urljoin(base, href), given the scheme and host of the base: an absolute href
\* is kept, a site-relative path replaces the path of the base URL.
urljoin(origin, href) ==
    IF href.kind = "abs" THEN href.path ELSE origin \o href.path

\* The products of an embedded JSON payload the page may hold.
JsonEntries ==
    { [productId |-> "A", displayName |-> "n1", price |-> "10"],
      [productId |-> "B", displayName |-> "n2", price |-> "10"],
      [productId |-> "A", displayName |-> "",   price |-> "20"] }

\* The payload of the script tags: no marker script, a payload json.loads
\* rejects, or a products collection.
JsonPayloads ==
    { [kind |-> "none", products |-> <<>>], [kind |-> "malformed", products |-> <<>>] }
    \cup { [kind |-> "ok", products |-> s] : s \in SeqsUpTo(JsonEntries, MaxJson) }

\* The product cards of the page; reading a card may raise.
HtmlCards ==
    { [name |-> "n1", price |-> "12", href |-> RelHref("/us/A.html"), raises |-> FALSE],
      [name |-> "n2", price |-> "12", href |-> RelHref("/us/C.html"), raises |-> FALSE],
      [name |-> "n1", price |-> "15", href |-> NoHref, raises |-> FALSE],
      [name |-> "",   price |-> "",   href |-> NoHref, raises |-> FALSE],
      [name |-> "n2", price |-> "13", href |-> AbsHref(base_url \o "/A.html"),
       raises |-> FALSE],
      [name |-> "n2", price |-> "12", href |-> RelHref("/us/C.html"), raises |-> TRUE] }

\* The objects the page script hands back (it keeps a card only if it has a
\* name or a url).
JsCards ==
    { [name |-> "n1", price |-> "9", url |-> base_url \o "/A.html"],
      [name |-> "n1", price |-> "9", url |-> ""],
      [name |-> "",   price |-> "9", url |-> base_url \o "/D.html"],
      [name |-> "",   price |-> "",  url |-> ""] }

JsResults ==
    { [kind |-> "raise", items |-> <<>>] }
    \cup { [kind |-> "ok", items |-> s] : s \in SeqsUpTo(JsCards, MaxJs) }

Draft(name, price, url) == [name |-> name, price |-> price, url |-> url]

\* _extract_from_json: one draft per product of a parsable payload; the url is
\* built from the product id.
_extract_from_json(payload) ==
    IF payload.kind # "ok" THEN <<>>
    ELSE [i \in DOMAIN payload.products |->
            LET product == payload.products[i] IN
            Draft(product.displayName,
                  "$" \o product.price,
                  base_url \o "/" \o product.productId \o ".html")]

HtmlUrl(card) ==
    IF card.href.kind = "none" THEN ""
    ELSE IF card.href.kind = "abs" THEN card.href.path
    ELSE urljoin(Origin, card.href)

\* _extract_from_html: a card gives a draft only if it has a name or a url;
\* a card that raises is reported and skipped.
RECURSIVE _extract_from_html(_)
_extract_from_html(cards) ==
    IF cards = <<>> THEN <<>>
    ELSE LET element == Head(cards)
             name    == element.name
             url     == HtmlUrl(element)
             rest    == _extract_from_html(Tail(cards))
         IN IF ~element.raises /\ (name # "" \/ url # "")
            THEN <<Draft(name, element.price, url)>> \o rest
            ELSE rest

\* The in-page script of _extract_with_js: `if (name || url) products.push`.
RECURSIVE PageScript(_)
PageScript(cards) ==
    IF cards = <<>> THEN <<>>
    ELSE IF Head(cards).name # "" \/ Head(cards).url # ""
         THEN <<Head(cards)>> \o PageScript(Tail(cards))
         ELSE PageScript(Tail(cards))

\* _extract_with_js: the script's objects reformatted; [] when it raises.
_extract_with_js(res) ==
    IF res.kind = "raise" THEN <<>>
    ELSE LET products_data == PageScript(res.items) IN
         [i \in DOMAIN products_data |->
            Draft(products_data[i].name, products_data[i].price, products_data[i].url)]

\* identifier = url if url else name
Identifier(product) == IF product.url # "" THEN product.url ELSE product.name

\* The dedup loop of _extract_products.
RECURSIVE DedupLoop(_, _, _)
DedupLoop(rest, seen_urls, unique) ==
    IF rest = <<>> THEN unique
    ELSE LET product    == Head(rest)
             identifier == Identifier(product)
         IN IF identifier # "" /\ identifier \notin seen_urls
            THEN DedupLoop(Tail(rest), seen_urls \cup {identifier}, Append(unique, product))
            ELSE DedupLoop(Tail(rest), seen_urls, unique)

\* Mutant: a later sighting overwrites the retained record.
RECURSIVE DedupLoopLastWins(_, _, _)
DedupLoopLastWins(rest, seen_urls, unique) ==
    IF rest = <<>> THEN unique
    ELSE LET product    == Head(rest)
             identifier == Identifier(product)
         IN IF identifier = "" THEN DedupLoopLastWins(Tail(rest), seen_urls, unique)
            ELSE IF identifier \notin seen_urls
            THEN DedupLoopLastWins(Tail(rest), seen_urls \cup {identifier},
                                   Append(unique, product))
            ELSE DedupLoopLastWins(Tail(rest), seen_urls,
                    [i \in DOMAIN unique |->
                        IF Identifier(unique[i]) = identifier THEN product ELSE unique[i]])

DeduplicateLastWins(drafts) == DedupLoopLastWins(drafts, {}, <<>>)

\* Mutant: the identifier is never added to the seen set.
RECURSIVE DedupLoopNoAdd(_, _)
DedupLoopNoAdd(rest, unique) ==
    IF rest = <<>> THEN unique
    ELSE IF Identifier(Head(rest)) # ""
         THEN DedupLoopNoAdd(Tail(rest), Append(unique, Head(rest)))
         ELSE DedupLoopNoAdd(Tail(rest), unique)

DeduplicateNoAdd(drafts) == DedupLoopNoAdd(drafts, <<>>)

Deduplicate(drafts) == DedupLoop(drafts, {}, <<>>)

\* Mutant: a strategy's drafts are put in front of the earlier ones.
ExtendFront(list, more) == more \o list

\* products.extend(more)
Extend(list, more) == list \o more

\* How a strategy ended: with drafts, with none, or with an exception that
\* the strategy caught itself.
Outcome(raised, drafts) ==
    IF raised THEN "exception" ELSE IF drafts = <<>> THEN "empty" ELSE "ok"

Strategies == {"json", "html", "js"}

\* The strategies of a finished call that did not end with drafts.
Failed(o) == { s \in Strategies : o[s] # "ok" }

\* Mutant: the page script is skipped when the JSON payload gave drafts.
ExtractFromJsonThenJs ==
    /\ xpc = "json"
    /\ \E payload \in JsonPayloads :
         /\ json_products' = _extract_from_json(payload)
         /\ products' = Extend(products, json_products')
         /\ ended' = [ended EXCEPT !["json"] =
                           Outcome(payload.kind = "malformed", json_products')]
    /\ xpc' = IF json_products' # <<>> THEN "js" ELSE "html"
    /\ ran' = Append(ran, "json")
    /\ UNCHANGED <<html_products, js_products, unique_products, alone>>
    /\ UNCHANGED <<bvars, dvars, avars, session, pvars, ivars, uvars, gvars>>

\* Method 1: JSON data in script tags. json.loads raising on the payload is
\* caught inside _extract_from_json.
ExtractFromJson ==
    /\ xpc = "json"
    /\ \E payload \in JsonPayloads :
         /\ json_products' = _extract_from_json(payload)
         /\ products' = Extend(products, json_products')
         /\ ended' = [ended EXCEPT !["json"] =
                           Outcome(payload.kind = "malformed", json_products')]
    /\ xpc' = "html"
    /\ ran' = Append(ran, "json")
    /\ UNCHANGED <<html_products, js_products, unique_products, alone>>
    /\ UNCHANGED <<bvars, dvars, avars, session, pvars, ivars, uvars, gvars>>

\* Method 2: the HTML structure. A card that raises is caught inside the loop
\* of _extract_from_html.
ExtractFromHtml ==
    /\ xpc = "html"
    /\ \E cards \in SeqsUpTo(HtmlCards, MaxHtml) :
         /\ html_products' = _extract_from_html(cards)
         /\ products' = Extend(products, html_products')
         /\ ended' = [ended EXCEPT !["html"] =
                           Outcome(\E i \in DOMAIN cards : cards[i].raises, html_products')]
    /\ xpc' = "js"
    /\ ran' = Append(ran, "html")
    /\ UNCHANGED <<json_products, js_products, unique_products, alone>>
    /\ UNCHANGED <<bvars, dvars, avars, session, pvars, ivars, uvars, gvars>>

\* Mutant: an exception of the page script leaves _extract_products.
ExtractWithJsAborts ==
    /\ xpc = "js"
    /\ \E res \in JsResults :
         /\ js_products' = _extract_with_js(res)
         /\ products' = Extend(products, js_products')
         /\ ended' = [ended EXCEPT !["js"] = Outcome(res.kind = "raise", js_products')]
         /\ unique_products' = IF res.kind = "raise" THEN <<>> ELSE Deduplicate(products')
    /\ xpc' = "done"
    /\ ran' = Append(ran, "js")
    /\ alone' = alone
    /\ UNCHANGED <<json_products, html_products>>
    /\ UNCHANGED <<bvars, dvars, avars, session, pvars, ivars, uvars, gvars>>

\* Method 3: the page script, whose exception is caught inside
\* _extract_with_js; then the dedup loop and the return.
ExtractWithJs ==
    /\ xpc = "js"
    /\ \E res \in JsResults :
         /\ js_products' = _extract_with_js(res)
         /\ products' = Extend(products, js_products')
         /\ ended' = [ended EXCEPT !["js"] = Outcome(res.kind = "raise", js_products')]
    /\ unique_products' = Deduplicate(products')
    /\ xpc' = "done"
    /\ ran' = Append(ran, "js")
    /\ alone' = IF Cardinality(Failed(ended')) = 1 THEN alone \cup Failed(ended')
                ELSE alone
    /\ UNCHANGED <<json_products, html_products>>
    /\ UNCHANGED <<bvars, dvars, avars, session, pvars, ivars, uvars, gvars>>

\* The next call of _extract_products (search_products, get_trending_products).
ExtractAgain ==
    /\ xpc = "done"
    /\ xpc' = "json"
    /\ json_products' = <<>>
    /\ html_products' = <<>>
    /\ js_products' = <<>>
    /\ products' = <<>>
    /\ unique_products' = <<>>
    /\ ran' = <<>>
    /\ ended' = [s \in Strategies |-> "pending"]
    /\ UNCHANGED alone
    /\ UNCHANGED <<bvars, dvars, avars, session, pvars, ivars, uvars, gvars>>

XNext == ExtractFromJson \/ ExtractFromHtml \/ ExtractWithJs \/ ExtractAgain

\* ===========================================================================
\* scrape_fashion_site and the scrape button handler (src/scraper.py)
\* ===========================================================================

\* The URL typed into "Enter a product or category URL".
SiteOrigin == "https://site"
StartUrl   == SiteOrigin \o "/list"

\* A missing element or attribute (query_selector / get_attribute gave None).
None == "None"

\* re.sub(r'\s+', ' ', text).strip() on the texts of the model.
Collapse(text) ==
    CASE text = " T1 " -> "T1"
      [] text = "  "   -> ""
      [] OTHER         -> text

\* clean_text: "N/A" for an empty text, else the text with whitespace collapsed.
clean_text(text) == IF text = "" THEN "N/A" ELSE Collapse(text)

\* The attributes the image loop reads, in its order.
ImgAttrs == <<"src", "data-src", "srcset", "data-srcset", "data-lazy-src">>

\* What the image selector gives inside a container: no element, or an
\* element with, per attribute, None (not set), "" or a value.
NoImg == [present |-> FALSE, attrs |-> [a \in 1..Len(ImgAttrs) |-> None]]
Img(src, data_src, srcset, data_srcset, data_lazy_src) ==
    [present |-> TRUE, attrs |-> <<src, data_src, srcset, data_srcset, data_lazy_src>>]

\* A container in which every sub-selector resolves.
FullCard ==
    [title_el |-> "T1", price_el |-> "$10", regular_price_el |-> "$12",
     sale_price_el |-> "$8", img_el |-> Img("/a.jpg", None, None, None, None),
     link_el |-> RelHref("/p1"), desc_el |-> "D1", raises |-> FALSE]

\* A container in which no sub-selector resolves.
BareCard ==
    [title_el |-> None, price_el |-> None, regular_price_el |-> None,
     sale_price_el |-> None, img_el |-> NoImg, link_el |-> NoElement,
     desc_el |-> None, raises |-> FALSE]

\* The item containers a listing page may show: the text of the title element
\* (None: no such element) and the link element, and whether
\* reading the container raises.
ItemCards ==
    { FullCard,
      [FullCard EXCEPT !.title_el = "T2"],
      BareCard,
      [FullCard EXCEPT !.raises = TRUE] }

\* The sub-fields of a container that may fail to resolve.
SubFields ==
    {"title", "price", "regular_price", "sale_price", "image", "link", "description"}

\* The container in which exactly the sub-fields of `missing` do not resolve.
CardWithout(missing) ==
    [title_el         |-> IF "title" \in missing THEN None ELSE " T1 ",
     price_el         |-> IF "price" \in missing THEN None ELSE "$10",
     regular_price_el |-> IF "regular_price" \in missing THEN None ELSE "$12",
     sale_price_el    |-> IF "sale_price" \in missing THEN None ELSE "$8",
     img_el           |-> IF "image" \in missing THEN NoImg
                          ELSE Img("/a.jpg", None, None, None, None),
     link_el          |-> IF "link" \in missing THEN NoElement ELSE RelHref("/p1"),
     desc_el          |-> IF "description" \in missing THEN None ELSE "D1",
     raises           |-> FALSE]

\* Price texts a container may show in its three price elements.
PriceCards ==
    { [FullCard EXCEPT !.price_el = p, !.regular_price_el = r, !.sale_price_el = x] :
        p \in {"$10", None}, r \in {"$10", "$12", None}, x \in {"$8", "$10", "  ", None} }

\* Image elements a container may show.
ImgCards ==
    { [FullCard EXCEPT !.img_el = Img(a, b, c, d, e)] :
        a \in {None, "", "/a.jpg"}, b \in {None, "", "/b.jpg"},
        c \in {None, "", "/c.jpg 1x, /c2.jpg 2x"},
        d \in {None, " /d.jpg 480w"}, e \in {None, "/e.jpg"} }

\* Every container of the model.
Containers ==
    ItemCards \cup { CardWithout(missing) : missing \in SUBSET SubFields }
              \cup PriceCards \cup ImgCards

\* What the next_page selector finds: nothing, an element without href or
\* with an empty one, or a link; "/list" leads back to the start page.
NextLinks ==
    { NoElement, NoHref, EmptyHref, RelHref("/list"), RelHref("/list2") }

\* value.split(",")[0].strip().split(" ")[0] on the source-set texts of the
\* model.
FirstUrlToken(value) ==
    CASE value = "/c.jpg 1x, /c2.jpg 2x" -> "/c.jpg"
      [] value = " /d.jpg 480w"          -> "/d.jpg"
      [] value = "https://cdn/c.jpg 1x, https://cdn/c2.jpg 2x" -> "https://cdn/c.jpg"
      [] OTHER                           -> value

\* `for attr in [...]`: img_src of the first attribute holding a non-empty
\* value, the first URL of a source-set; "" stands for a falsy img_src.
RECURSIVE ImgLoop(_, _)
ImgLoop(attrs, k) ==
    IF k > Len(ImgAttrs) THEN ""
    ELSE IF attrs[k] \notin {None, ""}
         THEN IF ImgAttrs[k] \in {"srcset", "data-srcset"}
              THEN FirstUrlToken(attrs[k])
              ELSE attrs[k]
         ELSE ImgLoop(attrs, k + 1)

\* Lines 923-935: the image URL of a container.
ImageUrl(img_el) ==
    LET img_src == IF img_el.present THEN ImgLoop(img_el.attrs, 1) ELSE ""
    IN IF img_src = "" THEN "N/A"
       ELSE IF img_src = "https://cdn/c.jpg" THEN urljoin(SiteOrigin, AbsHref(img_src))
       ELSE urljoin(SiteOrigin, RelHref(img_src))

\* The record built for one item container (lines 905-981); the fields
\* derived from the title and description texts (brand, colours, sizes,
\* currency) and the timestamp are left out.
product_data(item, page_number) ==
    LET title         == clean_text(IF item.title_el # None THEN item.title_el ELSE "N/A")
        price_text    == clean_text(IF item.price_el # None THEN item.price_el ELSE "N/A")
        regular_price == clean_text(IF item.regular_price_el # None
                                    THEN item.regular_price_el ELSE price_text)
        sale_text     == clean_text(IF item.sale_price_el # None
                                    THEN item.sale_price_el ELSE "")
        sale_price    == IF sale_text = "" /\ regular_price # price_text
                         THEN price_text ELSE sale_text
        on_sale       == sale_price # "" /\ sale_price # regular_price
    IN [ Title        |-> title,
         Price        |-> price_text,
         RegularPrice |-> regular_price,
         SalePrice    |-> IF on_sale THEN sale_price ELSE "N/A",
         OnSale       |-> IF on_sale THEN "Yes" ELSE "No",
         ImageURL     |-> ImageUrl(item.img_el),
         ProductURL   |-> IF item.link_el.kind = "absent" THEN "N/A"
                          ELSE IF item.link_el.kind = "none" THEN StartUrl
                          ELSE urljoin(SiteOrigin, item.link_el),
         Description  |-> clean_text(IF item.desc_el # None THEN item.desc_el ELSE "N/A"),
         PageNumber   |-> page_number ]

\* The item loop of one page: a container that raises is logged and skipped.
RECURSIVE ExtractPage(_, _)
ExtractPage(items, page_number) ==
    IF items = <<>> THEN <<>>
    ELSE IF Head(items).raises
         THEN ExtractPage(Tail(items), page_number)
         ELSE <<product_data(Head(items), page_number)>>
                 \o ExtractPage(Tail(items), page_number)

\* Mutant: any element the next_page selector finds is followed.
HasNextUrlAnyElement(link) == link.kind # "absent"

\* `if next_page_link:` and `if next_page_url:` - an element with a
\* non-empty href.
HasNextUrl(link) == link.kind \notin {"absent", "none", "empty"}

\* Mutant: the page budget is compared with <= instead of <.
BudgetLeftOffByOne(n) == pagination /\ n <= max_pages

\* `pagination and pages_scraped < max_pages`
BudgetLeft(n) == pagination /\ n < max_pages

\* save_history: load, append, dump; any failure is logged and swallowed.
save_history(h, url, products_count, io_ok) ==
    IF io_ok THEN Append(h, [url |-> url, products_count |-> products_count]) ELSE h

\* Mutant: `while True` without the break - the loop is never left.
LeaveLoopNever(result) == FALSE

\* Lines 1006-1011 and the handler's lines 1032-1040: history, close, return,
\* and what the handler does with the returned list. save_history is looked
\* up when line 1008 runs; the script defines it in the tab3 block, which
\* runs after the button handler of tab1.
LeaveLoop(result) ==
    IF result # <<>> /\ "save_history" \notin bound_names
    THEN \* NameError at line 1008, caught by the handler's except branch
         /\ status' = "ERROR"
         /\ UNCHANGED <<scraped_data, history, browser_open>>
    ELSE /\ \E io_ok \in BOOLEAN :
              history' = IF result # <<>>
                         THEN save_history(history, StartUrl, Len(result), io_ok)
                         ELSE history
         /\ browser_open' = FALSE
         /\ IF result # <<>>
            THEN status' = "OK" /\ scraped_data' = result
            ELSE status' = "NO_ITEMS_FOUND" /\ UNCHANGED scraped_data

\* The Scrape button with a URL entered: scrape_fashion_site launches the
\* browser and navigates; a failed first navigation closes the browser and
\* returns [].
ScrapeButton ==
    /\ spc = "tab1"
    /\ pages_scraped' = 0
    /\ all_data' = <<>>
    /\ current_url' = StartUrl
    /\ next_resolved' = FALSE
    /\ next_page_link' = NoElement
    /\ \E nav_ok \in BOOLEAN :
         IF nav_ok
         THEN /\ spc' = "loop"
              /\ browser_open' = TRUE
              /\ goto_failed_at' = 0
              /\ UNCHANGED <<status, scraped_data, history>>
         ELSE /\ spc' = "finished"
              /\ browser_open' = FALSE
              /\ goto_failed_at' = 1
              /\ status' = "NO_ITEMS_FOUND"
              /\ UNCHANGED <<scraped_data, history>>
    /\ UNCHANGED <<bound_names, pagination, max_pages>>
    /\ UNCHANGED <<xvars, dvars, avars, session, pvars, ivars, uvars, gvars>>

\* One iteration of `while True`: extract the page, extend all_data, then
\* either navigate to the next page or leave the loop and return.
ScrapePage ==
    /\ spc = "loop"
    /\ \E items \in SeqsUpTo(ItemCards, MaxItems), next \in NextLinks, nav_ok \in BOOLEAN :
         LET n    == pages_scraped + 1
             result == Extend(all_data, ExtractPage(items, n))
         IN /\ pages_scraped' = n
            /\ all_data' = result
            /\ next_page_link' = IF BudgetLeft(n) THEN next ELSE next_page_link
            /\ IF BudgetLeft(n) /\ HasNextUrl(next)
               THEN \* next_page_link with a non-empty href
                    /\ next_resolved' = TRUE
                    /\ current_url' = urljoin(SiteOrigin, next)
                    /\ IF nav_ok
                       THEN /\ spc' = "loop"
                            /\ UNCHANGED <<goto_failed_at, status, scraped_data,
                                           history, browser_open>>
                       ELSE \* page.goto raises; nothing in the function catches it
                            /\ spc' = "finished"
                            /\ goto_failed_at' = n + 1
                            /\ status' = "ERROR"
                            /\ UNCHANGED <<scraped_data, history, browser_open>>
               ELSE /\ next_resolved' = (next_resolved \/ (BudgetLeft(n) /\ next.kind # "absent"))
                    /\ spc' = "finished"
                    /\ LeaveLoop(result)
                    /\ UNCHANGED <<current_url, goto_failed_at>>
    /\ UNCHANGED <<bound_names, pagination, max_pages>>
    /\ UNCHANGED <<xvars, dvars, avars, session, pvars, ivars, uvars, gvars>>

\* The rest of the script run: the tab3 block defines load_history and
\* save_history and shows the history.
RunTab3 ==
    /\ spc \in {"tab1", "finished"}
    /\ spc' = "end"
    /\ bound_names' = bound_names \cup {"load_history", "save_history"}
    /\ UNCHANGED <<pagination, max_pages, browser_open, current_url, pages_scraped,
                   all_data, next_resolved, next_page_link, goto_failed_at, status,
                   scraped_data, history>>
    /\ UNCHANGED <<xvars, dvars, avars, session, pvars, ivars, uvars, gvars>>

\* A widget interaction reruns the script from the top in a fresh namespace.
Rerun ==
    /\ spc = "end"
    /\ spc' = "tab1"
    /\ bound_names' = {}
    /\ pagination' \in BOOLEAN
    /\ max_pages' \in 1..MaxPagesBound
    /\ status' = "none"
    /\ current_url' = StartUrl
    /\ pages_scraped' = 0
    /\ all_data' = <<>>
    /\ next_resolved' = FALSE
    /\ next_page_link' = NoElement
    /\ goto_failed_at' = 0
    /\ UNCHANGED <<browser_open, scraped_data, history>>
    /\ UNCHANGED <<xvars, dvars, avars, session, pvars, ivars, uvars, gvars>>

BNext == ScrapeButton \/ ScrapePage \/ RunTab3 \/ Rerun

\* ---------------------------------------------------------------------------
\* Profile resolution: the select box, site_selectors, detect_site_type and
\* the bundle the loop of scrape_fashion_site indexes (src/scraper.py)
\* ---------------------------------------------------------------------------

\* The options of the select box "Select a site profile".
ProfileOptions ==
    {"Auto-detect", "Generic", "Shopify", "WooCommerce", "Magento", "Fashion Nova",
     "ASOS", "Zara"}

\* The options the exploration selects.
ProfileChoices == {"Auto-detect", "Generic", "ASOS"}

BundleNames == ProfileOptions \ {"Auto-detect"}

\* site_selectors: the items, title, link and next_page selectors of every
\* bundle (the price, image and description selectors are left out).
site_selectors ==
    [name \in BundleNames |->
       CASE name = "Generic" ->
              [items |-> "article, .product, .product-card, .grid-item, li[id*='product'], div[class*='product'], [data-product-id]",
               title |-> "h2, h3, h4, .product-title, .name, .title, [class*='product-name'], [class*='title']",
               link |-> "a",
               next_page |-> ".next, .pagination a:last-child, [class*='next'], a[rel='next'], a[aria-label*='Next']"]
         [] name = "Shopify" ->
              [items |-> ".product-card, .grid__item, .product-item, [class*='product-card']",
               title |-> ".product-card__title, .product-title, .product-item__title, h2, h3",
               link |-> "a",
               next_page |-> "a.pagination__next, .next a"]
         [] name = "WooCommerce" ->
              [items |-> "li.product, .product-type-simple, .product-type-variable, .type-product",
               title |-> "h2.woocommerce-loop-product__title, .product-title, h3",
               link |-> "a.woocommerce-LoopProduct-link",
               next_page |-> ".next.page-numbers"]
         [] name = "Magento" ->
              [items |-> "li.item.product.product-item, .product-item, .product-items > li",
               title |-> ".product-item-name, .product-name, a.product-item-link",
               link |-> "a.product-item-photo, a.product-item-link",
               next_page |-> ".pages-item-next a"]
         [] name = "Fashion Nova" ->
              [items |-> ".product-grid-item, .grid-item, [class*='product-item']",
               title |-> ".product-name, .product-title, .name, h3",
               link |-> "a.product-grid-item__link, a",
               next_page |-> ".pagination__next, .pagination-next"]
         [] name = "ASOS" ->
              [items |-> "article[data-auto-id='productTile'], [data-test-id='product-card']",
               title |-> "[data-auto-id='productTileDescription'], h2, .product-title",
               link |-> "a[data-auto-id='productTileLink'], a",
               next_page |-> "[data-auto-id='loadMoreProducts'], .pagination-next"]
         [] OTHER ->
              [items |-> ".product-item, .product, article[class*='product']",
               title |-> ".product-info .name, .item-name, h3.product-info-item-name",
               link |-> "a.item, a.link",
               next_page |-> ".next-page, .zds-button--pagination-next"]]

\* A text is a sequence of fragments; the fragments that matter are the
\* platform markers, in any letter case.
PageTexts ==
    { <<"plain text">>,
      <<"Powered by ", "Shopify">>,
      <<"WOOCOMMERCE", " and ", "Magento">>,
      <<"seen at ", "asos">> }

PageUrls ==
    { <<"https://", "shop", ".com">>,
      <<"https://www.", "ASOS", ".com/", "zara">>,
      <<"https://", "FashionNova", ".com/", "asos">>,
      <<"https://", "shopify", ".", "Zara", ".com">> }

\* str.lower() on a fragment.
Lower(fragment) ==
    CASE fragment = "Shopify"     -> "shopify"
      [] fragment = "WOOCOMMERCE" -> "woocommerce"
      [] fragment = "Magento"     -> "magento"
      [] fragment = "ASOS"        -> "asos"
      [] fragment = "FashionNova" -> "fashionnova"
      [] fragment = "Zara"        -> "zara"
      [] OTHER                    -> fragment

\* text.lower()
Lowered(text) == [i \in DOMAIN text |-> Lower(text[i])]

\* `marker in text`
Contains(text, marker) == \E i \in DOMAIN text : text[i] = marker

\* Mutant: the URL is looked at before the page content.
detect_site_typeUrlFirst(content, url) ==
    IF Contains(Lowered(url), "fashionnova") THEN "Fashion Nova"
    ELSE IF Contains(Lowered(url), "asos") THEN "ASOS"
    ELSE IF Contains(Lowered(url), "zara") THEN "Zara"
    ELSE IF Contains(Lowered(content), "shopify") THEN "Shopify"
    ELSE IF Contains(Lowered(content), "woocommerce") THEN "WooCommerce"
    ELSE IF Contains(Lowered(content), "magento") THEN "Magento"
    ELSE "Generic"

\* Mutant: the result depends on the pagination setting of the run.
detect_site_typeBySetting(content, url) ==
    IF pagination THEN "Generic"
    ELSE IF Contains(Lowered(content), "shopify") THEN "Shopify"
    ELSE IF Contains(Lowered(content), "woocommerce") THEN "WooCommerce"
    ELSE IF Contains(Lowered(content), "magento") THEN "Magento"
    ELSE IF Contains(Lowered(url), "fashionnova") THEN "Fashion Nova"
    ELSE IF Contains(Lowered(url), "asos") THEN "ASOS"
    ELSE IF Contains(Lowered(url), "zara") THEN "Zara"
    ELSE "Generic"

\* detect_site_type: the if / elif chain over page.content() and page.url.
detect_site_type(content, url) ==
    IF Contains(Lowered(content), "shopify") THEN "Shopify"
    ELSE IF Contains(Lowered(content), "woocommerce") THEN "WooCommerce"
    ELSE IF Contains(Lowered(content), "magento") THEN "Magento"
    ELSE IF Contains(Lowered(url), "fashionnova") THEN "Fashion Nova"
    ELSE IF Contains(Lowered(url), "asos") THEN "ASOS"
    ELSE IF Contains(Lowered(url), "zara") THEN "Zara"
    ELSE "Generic"

\* The handler's argument: the bundle of the selected profile, the Generic
\* bundle for "Auto-detect".
HandlerSelectors(profile) ==
    IF profile # "Auto-detect" THEN site_selectors[profile] ELSE site_selectors["Generic"]

\* Mutant: the detected bundle is used whatever profile was selected.
ResolveSelectorsDetected(profile, passed, content, url) ==
    site_selectors[detect_site_type(content, url)]

\* Lines 835-840: the bundle the loop indexes.
ResolveSelectors(profile, passed, content, url) ==
    IF profile = "Auto-detect"
    THEN site_selectors[detect_site_type(content, url)]
    ELSE passed

NoInput == [content |-> <<>>, url |-> <<>>]

NoDetection ==
    [known |-> FALSE, content |-> <<>>, url |-> <<>>, type |-> "unset",
     pagination |-> FALSE]

\* The variables of the pagination loop that profile resolution leaves alone.
bframe == <<spc, bound_names, browser_open, current_url, all_data, next_resolved,
            next_page_link, goto_failed_at, status, scraped_data, history>>

\* The Scrape button up to the loop: the handler picks the bundle to pass,
\* scrape_fashion_site navigates (a failed navigation returns []), then
\* resolves current_selectors and detected_type.
ResolveProfile ==
    /\ dpc = "button"
    /\ selectors' = HandlerSelectors(site_profile)
    /\ pages_scraped' = 0
    /\ queried' = {}
    /\ \E nav_ok \in BOOLEAN, content \in PageTexts, url \in PageUrls :
         IF ~nav_ok
         THEN /\ dpc' = "failed"
              /\ UNCHANGED <<current_selectors, detected_first, detected_type,
                             detect_calls, page_content, page_url, detect_input>>
         ELSE /\ dpc' = "page"
              /\ page_content' = content
              /\ page_url' = url
              /\ current_selectors' = ResolveSelectors(site_profile, selectors', content, url)
              /\ IF site_profile = "Auto-detect"
                 THEN /\ detected_first' = detect_site_type(content, url)
                      /\ detected_type' = detect_site_type(content, url)
                      /\ detect_calls' = 2
                      /\ detect_input' = [content |-> content, url |-> url]
                 ELSE /\ detected_type' = site_profile
                      /\ UNCHANGED <<detected_first, detect_calls, detect_input>>
    /\ UNCHANGED <<site_profile, prev_detection, pagination, max_pages>>
    /\ UNCHANGED <<bframe, xvars, avars, session, pvars, ivars, uvars, gvars>>

\* One iteration of the loop as far as selectors go: the items selector, the
\* title and link selectors when the page has items, and the next_page
\* selector when the budget allows another page; then the navigation to the
\* next page of the site, which shows any content, or the end of the loop.
QueryPage ==
    /\ dpc = "page"
    /\ \E has_items \in BOOLEAN, next \in NextLinks :
         LET n == pages_scraped + 1 IN
         /\ pages_scraped' = n
         /\ queried' = queried \cup {current_selectors.items}
                         \cup (IF has_items
                               THEN {current_selectors.title, current_selectors.link}
                               ELSE {})
                         \cup (IF BudgetLeft(n) THEN {current_selectors.next_page} ELSE {})
         /\ IF BudgetLeft(n) /\ HasNextUrl(next)
            THEN /\ dpc' = "page"
                 /\ page_content' \in PageTexts
            ELSE /\ dpc' = "returned"
                 /\ UNCHANGED page_content
    /\ UNCHANGED page_url
    /\ UNCHANGED <<site_profile, selectors, current_selectors, detected_first,
                   detected_type, detect_calls, detect_input, prev_detection,
                   pagination, max_pages>>
    /\ UNCHANGED <<bframe, xvars, avars, session, pvars, ivars, uvars, gvars>>

\* The script is rerun with any sidebar settings; what the finished run
\* detected is kept to compare the next run with.
NextRun ==
    /\ dpc \in {"returned", "failed"}
    /\ dpc' = "button"
    /\ site_profile' \in ProfileChoices
    /\ pagination' \in BOOLEAN
    /\ max_pages' \in 1..MaxPagesBound
    /\ prev_detection' =
          IF detect_calls > 0
          THEN [known |-> TRUE, content |-> detect_input.content, url |-> detect_input.url,
                type |-> detected_type, pagination |-> pagination]
          ELSE prev_detection
    /\ selectors' = site_selectors["Generic"]
    /\ current_selectors' = site_selectors["Generic"]
    /\ detected_first' = "unset"
    /\ detected_type' = "unset"
    /\ detect_calls' = 0
    /\ page_content' = <<>>
    /\ page_url' = <<>>
    /\ detect_input' = NoInput
    /\ queried' = {}
    /\ pages_scraped' = 0
    /\ UNCHANGED <<bframe, xvars, avars, session, pvars, ivars, uvars, gvars>>

DNext == ResolveProfile \/ QueryPage \/ NextRun

\* ---------------------------------------------------------------------------
\* Two browser sessions running the script at the same time: each run has its
\* own namespace and its own scrape_fashion_site call; scrape_history.json is
\* the one file all of them use (src/scraper.py)
\* ---------------------------------------------------------------------------
Sessions == {"s1", "s2"}

\* The URL typed in each session.
SessionUrl(s) == IF s = "s1" THEN StartUrl ELSE SiteOrigin \o "/list2"

NewRun(n) ==
    [pc |-> "tab1", bound_names |-> {}, collected |-> 0, status |-> "none", runs |-> n]

\* The variables of the single-session loop, which the sessions leave alone.
hframe == <<spc, bound_names, pagination, max_pages, browser_open, current_url,
            pages_scraped, all_data, next_resolved, next_page_link, goto_failed_at,
            status, scraped_data>>

\* The Scrape button in session s: scrape_fashion_site collects some records
\* and reaches lines 1006-1011; save_history is looked up in the namespace of
\* this run, which the tab3 block has not reached yet.
SessionScrape(s) ==
    /\ session[s].pc = "tab1"
    /\ \E products_count \in 0..MaxItems, io_ok \in BOOLEAN :
         IF products_count > 0 /\ "save_history" \notin session[s].bound_names
         THEN /\ session' = [session EXCEPT ![s].pc = "finished",
                                            ![s].collected = products_count,
                                            ![s].status = "ERROR"]
              /\ UNCHANGED history
         ELSE /\ session' = [session EXCEPT ![s].pc = "finished",
                                            ![s].collected = products_count,
                                            ![s].status = IF products_count > 0 THEN "OK"
                                                          ELSE "NO_ITEMS_FOUND"]
              /\ history' = IF products_count > 0
                            THEN save_history(history, SessionUrl(s), products_count, io_ok)
                            ELSE history
    /\ UNCHANGED <<hframe, xvars, dvars, avars, pvars, ivars, uvars, gvars>>

\* The tab3 block of the run of session s defines load_history and
\* save_history and reads the file for display.
SessionTab3(s) ==
    /\ session[s].pc \in {"tab1", "finished"}
    /\ session' = [session EXCEPT ![s].pc = "end",
                                  ![s].bound_names = @ \cup {"load_history", "save_history"}]
    /\ UNCHANGED <<history, hframe, xvars, dvars, avars, pvars, ivars, uvars, gvars>>

\* A widget interaction in session s reruns the script in a fresh namespace.
SessionRerun(s) ==
    /\ session[s].pc = "end"
    /\ session[s].runs < MaxRuns
    /\ session' = [session EXCEPT ![s] = NewRun(session[s].runs + 1)]
    /\ UNCHANGED <<history, hframe, xvars, dvars, avars, pvars, ivars, uvars, gvars>>

SNext == \E s \in Sessions : SessionScrape(s) \/ SessionTab3(s) \/ SessionRerun(s)

\* ===========================================================================
\* One iteration of the page loop of scrape_fashion_site (src/scraper.py)
\* ===========================================================================

\* fallback_selectors, in the order the for loop tries them.
fallback_selectors ==
    << "div[id*='product'], li[class*='product']",
       "[data-product], [data-product-id]",
       ".item, .grid-item, .collection-item",
       "article, .card, .product-card" >>

\* What a page holds for the container selectors: the number of elements the
\* bundle's items selector matches and the number each fallback matches
\* (none, or as many as the bound allows).
PageMatches ==
    [bundle : 0..MaxContainers,
     fallback : [DOMAIN fallback_selectors -> {0, MaxContainers}]]

NoMatches == [bundle |-> 0, fallback |-> [k \in DOMAIN fallback_selectors |-> 0]]

\* page.query_selector_all(selector) on a page where the selector matches n
\* elements: the list of their handles.
query_selector_all(selector, n) == [i \in 1..n |-> [by |-> selector, idx |-> i]]

\* Mutant: the for loop over fallback_selectors without its break.
RECURSIVE TryFallbacksNoBreak(_, _, _)
TryFallbacksNoBreak(m, k, queried_so_far) ==
    IF k > Len(fallback_selectors)
    THEN [tried |-> queried_so_far,
          items |-> query_selector_all(fallback_selectors[k - 1], m.fallback[k - 1])]
    ELSE TryFallbacksNoBreak(m, k + 1, Append(queried_so_far, fallback_selectors[k]))

\* `for selector in fallback_selectors`: items is the result of the latest
\* query, and the loop breaks at the first non-empty one.
RECURSIVE TryFallbacks(_, _, _)
TryFallbacks(m, k, queried_so_far) ==
    IF k > Len(fallback_selectors)
    THEN [tried |-> queried_so_far, items |-> <<>>]
    ELSE LET selector == fallback_selectors[k]
             found    == query_selector_all(selector, m.fallback[k])
         IN IF found # <<>>
            THEN [tried |-> Append(queried_so_far, selector), items |-> found]
            ELSE TryFallbacks(m, k + 1, Append(queried_so_far, selector))

\* Lines 886-900: the bundle's items selector, then the fallbacks when it
\* matched nothing.
SelectContainers(m) ==
    LET first == query_selector_all(current_selectors.items, m.bundle)
    IN IF first # <<>>
       THEN [tried |-> <<current_selectors.items>>, items |-> first]
       ELSE TryFallbacks(m, 1, <<current_selectors.items>>)

\* The variables of the loop other than all_data, which the iteration extends.
lframe == <<spc, bound_names, pagination, max_pages, browser_open, current_url,
            pages_scraped, next_resolved, next_page_link, goto_failed_at, status,
            scraped_data, history>>

\* "Try to get product blocks": the page is queried for item containers.
QueryItems ==
    /\ ppc = "query"
    /\ \E m \in PageMatches :
         /\ matched' = m
         /\ tried' = SelectContainers(m).tried
         /\ page_items' = SelectContainers(m).items
    /\ ppc' = "items"
    /\ UNCHANGED <<items_read, page_data, all_data>>
    /\ UNCHANGED <<lframe, xvars, dvars, session, avars, ivars, uvars, gvars>>

\* Mutant: a container that raises ends the item loop with an empty page.
ExtractItemDropsPage ==
    /\ ppc = "items"
    /\ Len(items_read) < Len(page_items)
    /\ \E item \in Containers :
         /\ item \in ItemCards \/ \A i \in DOMAIN items_read : items_read[i] \in ItemCards
         /\ items_read' = Append(items_read, item)
         /\ page_data' = IF item.raises THEN <<>>
                         ELSE Append(page_data, product_data(item, 1))
    /\ UNCHANGED <<ppc, matched, tried, page_items, all_data>>
    /\ UNCHANGED <<lframe, xvars, dvars, session, avars, ivars, uvars, gvars>>

\* One iteration of `for item in items`: the record of the container is
\* appended to page_data; a container that raises is logged and skipped. The
\* containers are read as the loop reaches them; at most one container of a
\* page is drawn from outside ItemCards.
ExtractItem ==
    /\ ppc = "items"
    /\ Len(items_read) < Len(page_items)
    /\ \E item \in Containers :
         /\ item \in ItemCards \/ \A i \in DOMAIN items_read : items_read[i] \in ItemCards
         /\ items_read' = Append(items_read, item)
         /\ page_data' = IF item.raises THEN page_data
                         ELSE Append(page_data, product_data(item, 1))
    /\ UNCHANGED <<ppc, matched, tried, page_items, all_data>>
    /\ UNCHANGED <<lframe, xvars, dvars, session, avars, ivars, uvars, gvars>>

\* all_data.extend(page_data) once the item loop is over.
ExtendAllData ==
    /\ ppc = "items"
    /\ Len(items_read) = Len(page_items)
    /\ all_data' = Extend(all_data, page_data)
    /\ ppc' = "extended"
    /\ UNCHANGED <<matched, tried, page_items, items_read, page_data>>
    /\ UNCHANGED <<lframe, xvars, dvars, session, avars, ivars, uvars, gvars>>

PNext == QueryItems \/ ExtractItem \/ ExtendAllData

\* ===========================================================================
\* Image URL extraction (src/scraper.py and src/scraper3.py)
\* ===========================================================================

\* The image elements the extraction is applied to.
Images ==
    { NoImg }
    \cup { Img(a, b, c, d, e) :
             a \in {None, "", "/a.jpg"}, b \in {None, "", "/b.jpg"},
             c \in {None, "", "/c.jpg 1x, /c2.jpg 2x", "https://cdn/c.jpg 1x, https://cdn/c2.jpg 2x"},
             d \in {None, " /d.jpg 480w"}, e \in {None, "/e.jpg"} }

\* re.search(r'(https?://[^\s]+)', srcset) on the source-set texts of the
\* model: the first absolute URL, "" when there is none.
FirstHttpUrl(srcset) ==
    IF srcset = "https://cdn/c.jpg 1x, https://cdn/c2.jpg 2x" THEN "https://cdn/c.jpg"
    ELSE ""

\* _extract_from_html, lines 333-344: the first attribute that is present in
\* img_elem.attrs, whatever it holds.
html_image_url(img) ==
    IF ~img.present THEN ""
    ELSE IF img.attrs[1] # None THEN img.attrs[1]
    ELSE IF img.attrs[2] # None THEN img.attrs[2]
    ELSE IF img.attrs[3] # None THEN FirstHttpUrl(img.attrs[3])
    ELSE ""

\* scrape_fashion_site reads the image of a container.
PageImage ==
    /\ img_url = "unset"
    /\ img_url' = ImageUrl(img_elem)
    /\ UNCHANGED <<img_elem, image_url>>
    /\ UNCHANGED <<xvars, bvars, dvars, session, avars, pvars, uvars, gvars>>

\* _extract_from_html reads the image of a product card.
HtmlImage ==
    /\ image_url = "unset"
    /\ image_url' = html_image_url(img_elem)
    /\ UNCHANGED <<img_elem, img_url>>
    /\ UNCHANGED <<xvars, bvars, dvars, session, avars, pvars, uvars, gvars>>

INext == PageImage \/ HtmlImage

\* ===========================================================================
\* Popup dismissal at the start of an iteration (src/scraper.py)
\* ===========================================================================

\* The selectors of the dismiss loop, in its order.
dismiss_selectors ==
    << ".cookie-banner button", "#cookie-accept", ".popup-close", ".modal-close",
       "[class*='cookie'] button", "[class*='popup'] button", "[class*='modal'] button" >>

\* A dismiss control: the k-th selector's i-th match.
Control(k, i) == <<k, i>>

\* No control: stands for "no click fails".
NoControl == <<0, 0>>

\* The controls of a page, in the order the two loops reach them.
RECURSIVE ControlsFrom(_, _, _)
ControlsFrom(matches, k, i) ==
    IF k > Len(dismiss_selectors) THEN <<>>
    ELSE IF i > matches[k] THEN ControlsFrom(matches, k + 1, 1)
    ELSE <<Control(k, i)>> \o ControlsFrom(matches, k, i + 1)

Controls(matches) == ControlsFrom(matches, 1, 1)

\* What a page shows to the dismiss loop: how many controls each selector
\* matches, and the control whose click raises (not visible, detached), if any.
PopupPages ==
    { [matches |-> m, failing |-> f] :
        m \in [DOMAIN dismiss_selectors -> 0..MaxControls],
        f \in {NoControl} \cup { Control(k, i) : k \in DOMAIN dismiss_selectors,
                                                 i \in 1..MaxControls } }

NoPopups == [matches |-> [k \in DOMAIN dismiss_selectors |-> 0], failing |-> NoControl]

\* Lines 855-863: the two nested loops inside one try; button.click() on the
\* failing control raises, and `except Exception: pass` is outside both loops.
RECURSIVE ClickAll(_, _)
ClickAll(controls, failing) ==
    IF controls = <<>> THEN <<>>
    ELSE IF Head(controls) = failing THEN <<>>
    ELSE <<Head(controls)>> \o ClickAll(Tail(controls), failing)

\* "Handle cookie banners or popups that might interfere".
DismissPopups ==
    /\ upc = "popups"
    /\ \E pg \in PopupPages :
         /\ pg.failing = NoControl
              \/ \E n \in DOMAIN Controls(pg.matches) : Controls(pg.matches)[n] = pg.failing
         /\ popup_page' = pg
         /\ clicked' = ClickAll(Controls(pg.matches), pg.failing)
    /\ upc' = "scroll"
    /\ UNCHANGED <<xvars, bvars, dvars, session, avars, pvars, ivars, gvars>>

\* page.evaluate of the scroll script and the one-second wait.
ScrollPage ==
    /\ upc = "scroll"
    /\ upc' = "query"
    /\ UNCHANGED <<popup_page, clicked>>
    /\ UNCHANGED <<xvars, bvars, dvars, session, avars, pvars, ivars, gvars>>

UNext == DismissPopups \/ ScrollPage

\* ===========================================================================
\* The webdriver of AdidasScraper (src/scraper3.py, src/sxraper2.py)
\* ===========================================================================

\* The part of the scraper the driver methods work on.
DriverState == [driver |-> driver, live |-> live, created |-> created]

\* Mutant: the operation creates a webdriver without looking at self.driver.
EnsureDriverAlways(d, init_ok) ==
    IF init_ok
    THEN [driver |-> d.created + 1, live |-> d.live \cup {d.created + 1},
          created |-> d.created + 1]
    ELSE d

\* `if not self.driver: self.driver = self.init_driver()`; init_driver may
\* raise, which leaves self.driver as it was.
EnsureDriver(d, init_ok) ==
    IF d.driver # 0 THEN d
    ELSE IF init_ok
         THEN [driver |-> d.created + 1, live |-> d.live \cup {d.created + 1},
               created |-> d.created + 1]
         ELSE d

\* close_driver: `if self.driver: self.driver.quit(); self.driver = None`.
close_driver(d) ==
    IF d.driver # 0
    THEN [driver |-> 0, live |-> d.live \ {d.driver}, created |-> d.created]
    ELSE d

\* How an operation of the scraper may end: init_driver raised, driver.get or
\* the extraction raised, or it returned.
OpOutcomes == {"init_raised", "raised", "returned"}

\* The operations that need the driver.
DriverOps == {"search_products", "get_trending_products", "get_product_details"}

\* The driver after an operation that ended with `outcome`.
AfterOp(d, outcome) == EnsureDriver(d, outcome # "init_raised")

\* The outcomes an operation can have in driver state d: init_driver is only
\* called when there is no driver.
PossibleOutcomes(d) ==
    IF d.driver = 0 THEN OpOutcomes ELSE OpOutcomes \ {"init_raised"}

\* One call of a driver operation on the scraper.
CallOp(op) ==
    /\ Len(calls) < MaxCalls
    /\ \E outcome \in PossibleOutcomes(DriverState) :
         /\ driver'  = AfterOp(DriverState, outcome).driver
         /\ live'    = AfterOp(DriverState, outcome).live
         /\ created' = AfterOp(DriverState, outcome).created
         /\ calls'   = Append(calls, [op |-> op, outcome |-> outcome])
    /\ UNCHANGED <<agent_pc, running, iterations, close_calls>>
    /\ UNCHANGED <<xvars, bvars, dvars, session, avars, pvars, ivars, uvars>>

SearchProducts == CallOp("search_products")

GetTrendingProducts == CallOp("get_trending_products")

GetProductDetails == CallOp("get_product_details")

CloseDriver ==
    /\ Len(calls) < MaxCalls
    /\ driver'  = close_driver(DriverState).driver
    /\ live'    = close_driver(DriverState).live
    /\ created' = close_driver(DriverState).created
    /\ calls'   = Append(calls, [op |-> "close_driver", outcome |-> "returned"])
    /\ UNCHANGED <<agent_pc, running, iterations, close_calls>>
    /\ UNCHANGED <<xvars, bvars, dvars, session, avars, pvars, ivars, uvars>>

GNext == SearchProducts \/ GetTrendingProducts \/ GetProductDetails \/ CloseDriver

\* ===========================================================================
\* AdidasAgent.start_interactive (src/scraper3.py)
\* ===========================================================================

\* The command table of AdidasAgent.
Commands == {"search", "trending", "details", "help", "exit"}

\* What one iteration reads: input() is interrupted (KeyboardInterrupt) or
\* fails (EOFError), or gives a line, of which the model keeps the first
\* word, lower-cased ("" for an empty line, "unknown" for no command of the
\* table), and whether arguments follow it.
NoLine == [cmd |-> "", args |-> FALSE]
CommandLines == [cmd : Commands \cup {"", "unknown"}, args : BOOLEAN]

\* The handlers that call an operation of the scraper with the given line.
UsesDriver(line) ==
    \/ line.cmd = "trending"
    \/ line.cmd \in {"search", "details"} /\ line.args

\* Mutant: help_command ends without a return statement.
HandlerReturnsHelpNone(cmd) == cmd \notin {"exit", "help"}

\* The value a handler returns when it returns: False for exit_command, True
\* for every other one.
HandlerReturns(cmd) == cmd # "exit"

\* How the body of the try can go for a line: the line is skipped (empty),
\* reported as unknown, answered by a handler that returns, or the handler
\* raises an exception or is interrupted, before or after the driver exists.
BodyOutcomes(line, d) ==
    IF line.cmd = "" THEN {"skipped"}
    ELSE IF line.cmd = "unknown" THEN {"unknown"}
    ELSE IF UsesDriver(line)
         THEN PossibleOutcomes(d) \cup {"interrupted", "interrupted_early"}
         ELSE {"returned"}

\* Every way an iteration can go.
Iterations(d) ==
    { [line |-> NoLine, outcome |-> o] : o \in {"input_interrupted", "input_failed"} }
    \cup UNION { { [line |-> l, outcome |-> o] : o \in BodyOutcomes(l, d) } :
                   l \in CommandLines }

\* The outcomes the `except KeyboardInterrupt` branch handles.
Interrupts == {"input_interrupted", "interrupted", "interrupted_early"}

\* `running` after an iteration.
RunningAfter(it, was_running) ==
    IF it.outcome \in Interrupts THEN FALSE
    ELSE IF it.outcome = "returned" THEN HandlerReturns(it.line.cmd)
    ELSE was_running

\* The driver after an iteration.
DriverAfter(it, d) ==
    IF UsesDriver(it.line) /\ it.outcome # "interrupted_early"
    THEN AfterOp(d, it.outcome)
    ELSE d

\* One iteration of `while running`.
ReadCommand ==
    /\ agent_pc = "loop"
    /\ Len(iterations) < MaxInputs
    /\ \E it \in Iterations(DriverState) :
         /\ iterations' = Append(iterations, it)
         /\ running' = RunningAfter(it, running)
         /\ agent_pc' = IF RunningAfter(it, running) THEN "loop" ELSE "cleanup"
         /\ driver'  = DriverAfter(it, DriverState).driver
         /\ live'    = DriverAfter(it, DriverState).live
         /\ created' = DriverAfter(it, DriverState).created
    /\ UNCHANGED <<calls, close_calls>>
    /\ UNCHANGED <<xvars, bvars, dvars, session, avars, pvars, ivars, uvars>>

\* "Clean up": self.scraper.close_driver(), then start_interactive returns.
CleanUp ==
    /\ agent_pc = "cleanup"
    /\ driver'  = close_driver(DriverState).driver
    /\ live'    = close_driver(DriverState).live
    /\ created' = close_driver(DriverState).created
    /\ close_calls' = close_calls + 1
    /\ agent_pc' = "returned"
    /\ UNCHANGED <<calls, running, iterations>>
    /\ UNCHANGED <<xvars, bvars, dvars, session, avars, pvars, ivars, uvars>>

AgentNext == ReadCommand \/ CleanUp

\* A script run has reached the Scrape button; the sidebar holds any setting.
Init ==
    /\ spc = "tab1"
    /\ bound_names = {}
    /\ pagination \in BOOLEAN
    /\ max_pages \in 1..MaxPagesBound
    /\ browser_open = FALSE
    /\ current_url = StartUrl
    /\ pages_scraped = 0
    /\ all_data = <<>>
    /\ next_resolved = FALSE
    /\ next_page_link = NoElement
    /\ goto_failed_at = 0
    /\ status = "none"
    /\ scraped_data = <<>>
    /\ history = <<>>
    /\ dpc = "button"
    /\ site_profile = "Auto-detect"
    /\ selectors = site_selectors["Generic"]
    /\ current_selectors = site_selectors["Generic"]
    /\ detected_first = "unset"
    /\ detected_type = "unset"
    /\ detect_calls = 0
    /\ page_content = <<>>
    /\ page_url = <<>>
    /\ detect_input = NoInput
    /\ queried = {}
    /\ prev_detection = NoDetection
    /\ session = [s \in Sessions |-> NewRun(1)]
    /\ xpc = "json"
    /\ json_products = <<>>
    /\ html_products = <<>>
    /\ js_products = <<>>
    /\ products = <<>>
    /\ unique_products = <<>>
    /\ ran = <<>>
    /\ ended = [s \in Strategies |-> "pending"]
    /\ alone = {}
    /\ apc = "goto"
    /\ data = <<>>
    /\ captcha = FALSE
    /\ shots = {}
    /\ scrolls = 0
    /\ stalled_at = 0
    /\ dom_left = <<>>
    /\ dom_done = 0
    /\ responses = 0
    /\ page_open = TRUE
    /\ csv = <<>>
    /\ ppc = "query"
    /\ matched = NoMatches
    /\ tried = <<>>
    /\ page_items = <<>>
    /\ items_read = <<>>
    /\ page_data = <<>>
    /\ img_elem = NoImg
    /\ img_url = "unset"
    /\ image_url = "unset"
    /\ upc = "popups"
    /\ popup_page = NoPopups
    /\ clicked = <<>>
    /\ driver = 0
    /\ live = {}
    /\ created = 0
    /\ calls = <<>>
    /\ agent_pc = "loop"
    /\ running = TRUE
    /\ iterations = <<>>
    /\ close_calls = 0

Next == BNext

Spec == Init /\ [][Next]_vars

\* Every call of the loop body returns or times out (goto has timeout=60000,
\* the waits are wait_for_timeout), so an iteration that has started finishes.
SpecLive == Init /\ [][Next]_vars /\ WF_vars(ScrapePage)

\* A script run has reached the Scrape button with any profile selected.
InitDetect ==
    /\ dpc = "button"
    /\ site_profile \in ProfileChoices
    /\ pagination \in BOOLEAN
    /\ max_pages \in 1..MaxPagesBound
    /\ selectors = site_selectors["Generic"]
    /\ current_selectors = site_selectors["Generic"]
    /\ detected_first = "unset"
    /\ detected_type = "unset"
    /\ detect_calls = 0
    /\ page_content = <<>>
    /\ page_url = <<>>
    /\ detect_input = NoInput
    /\ queried = {}
    /\ prev_detection = NoDetection
    /\ session = [s \in Sessions |-> NewRun(1)]
    /\ spc = "tab1"
    /\ bound_names = {}
    /\ browser_open = FALSE
    /\ current_url = StartUrl
    /\ pages_scraped = 0
    /\ all_data = <<>>
    /\ next_resolved = FALSE
    /\ next_page_link = NoElement
    /\ goto_failed_at = 0
    /\ status = "none"
    /\ scraped_data = <<>>
    /\ history = <<>>
    /\ xpc = "json"
    /\ json_products = <<>>
    /\ html_products = <<>>
    /\ js_products = <<>>
    /\ products = <<>>
    /\ unique_products = <<>>
    /\ ran = <<>>
    /\ ended = [s \in Strategies |-> "pending"]
    /\ alone = {}
    /\ apc = "goto"
    /\ data = <<>>
    /\ captcha = FALSE
    /\ shots = {}
    /\ scrolls = 0
    /\ stalled_at = 0
    /\ dom_left = <<>>
    /\ dom_done = 0
    /\ responses = 0
    /\ page_open = TRUE
    /\ csv = <<>>
    /\ ppc = "query"
    /\ matched = NoMatches
    /\ tried = <<>>
    /\ page_items = <<>>
    /\ items_read = <<>>
    /\ page_data = <<>>
    /\ img_elem = NoImg
    /\ img_url = "unset"
    /\ image_url = "unset"
    /\ upc = "popups"
    /\ popup_page = NoPopups
    /\ clicked = <<>>
    /\ driver = 0
    /\ live = {}
    /\ created = 0
    /\ calls = <<>>
    /\ agent_pc = "loop"
    /\ running = TRUE
    /\ iterations = <<>>
    /\ close_calls = 0

SpecDetect == InitDetect /\ [][DNext]_vars

\* Both sessions have a script run at the Scrape button; no history file yet.
InitSessions ==
    /\ session = [s \in Sessions |-> NewRun(1)]
    /\ history = <<>>
    /\ spc = "tab1"
    /\ bound_names = {}
    /\ pagination = FALSE
    /\ max_pages = 1
    /\ browser_open = FALSE
    /\ current_url = StartUrl
    /\ pages_scraped = 0
    /\ all_data = <<>>
    /\ next_resolved = FALSE
    /\ next_page_link = NoElement
    /\ goto_failed_at = 0
    /\ status = "none"
    /\ scraped_data = <<>>
    /\ dpc = "button"
    /\ site_profile = "Auto-detect"
    /\ selectors = site_selectors["Generic"]
    /\ current_selectors = site_selectors["Generic"]
    /\ detected_first = "unset"
    /\ detected_type = "unset"
    /\ detect_calls = 0
    /\ page_content = <<>>
    /\ page_url = <<>>
    /\ detect_input = NoInput
    /\ queried = {}
    /\ prev_detection = NoDetection
    /\ xpc = "json"
    /\ json_products = <<>>
    /\ html_products = <<>>
    /\ js_products = <<>>
    /\ products = <<>>
    /\ unique_products = <<>>
    /\ ran = <<>>
    /\ ended = [s \in Strategies |-> "pending"]
    /\ alone = {}
    /\ apc = "goto"
    /\ data = <<>>
    /\ captcha = FALSE
    /\ shots = {}
    /\ scrolls = 0
    /\ stalled_at = 0
    /\ dom_left = <<>>
    /\ dom_done = 0
    /\ responses = 0
    /\ page_open = TRUE
    /\ csv = <<>>
    /\ ppc = "query"
    /\ matched = NoMatches
    /\ tried = <<>>
    /\ page_items = <<>>
    /\ items_read = <<>>
    /\ page_data = <<>>
    /\ img_elem = NoImg
    /\ img_url = "unset"
    /\ image_url = "unset"
    /\ upc = "popups"
    /\ popup_page = NoPopups
    /\ clicked = <<>>
    /\ driver = 0
    /\ live = {}
    /\ created = 0
    /\ calls = <<>>
    /\ agent_pc = "loop"
    /\ running = TRUE
    /\ iterations = <<>>
    /\ close_calls = 0

SpecSessions == InitSessions /\ [][SNext]_vars

\* _extract_products is entered with an empty draft list.
InitExtract ==
    /\ xpc = "json"
    /\ json_products = <<>>
    /\ html_products = <<>>
    /\ js_products = <<>>
    /\ products = <<>>
    /\ unique_products = <<>>
    /\ ran = <<>>
    /\ ended = [s \in Strategies |-> "pending"]
    /\ alone = {}
    /\ spc = "tab1"
    /\ bound_names = {}
    /\ pagination = FALSE
    /\ max_pages = 1
    /\ browser_open = FALSE
    /\ current_url = StartUrl
    /\ pages_scraped = 0
    /\ all_data = <<>>
    /\ next_resolved = FALSE
    /\ next_page_link = NoElement
    /\ goto_failed_at = 0
    /\ status = "none"
    /\ scraped_data = <<>>
    /\ history = <<>>
    /\ dpc = "button"
    /\ site_profile = "Auto-detect"
    /\ selectors = site_selectors["Generic"]
    /\ current_selectors = site_selectors["Generic"]
    /\ detected_first = "unset"
    /\ detected_type = "unset"
    /\ detect_calls = 0
    /\ page_content = <<>>
    /\ page_url = <<>>
    /\ detect_input = NoInput
    /\ queried = {}
    /\ prev_detection = NoDetection
    /\ session = [s \in Sessions |-> NewRun(1)]
    /\ apc = "goto"
    /\ data = <<>>
    /\ captcha = FALSE
    /\ shots = {}
    /\ scrolls = 0
    /\ stalled_at = 0
    /\ dom_left = <<>>
    /\ dom_done = 0
    /\ responses = 0
    /\ page_open = TRUE
    /\ csv = <<>>
    /\ ppc = "query"
    /\ matched = NoMatches
    /\ tried = <<>>
    /\ page_items = <<>>
    /\ items_read = <<>>
    /\ page_data = <<>>
    /\ img_elem = NoImg
    /\ img_url = "unset"
    /\ image_url = "unset"
    /\ upc = "popups"
    /\ popup_page = NoPopups
    /\ clicked = <<>>
    /\ driver = 0
    /\ live = {}
    /\ created = 0
    /\ calls = <<>>
    /\ agent_pc = "loop"
    /\ running = TRUE
    /\ iterations = <<>>
    /\ close_calls = 0

SpecExtract == InitExtract /\ [][XNext]_vars

\* The first iteration of the loop has scrolled the page and is about to
\* query the item containers.
InitPage ==
    /\ apc = "goto"
    /\ data = <<>>
    /\ captcha = FALSE
    /\ shots = {}
    /\ scrolls = 0
    /\ stalled_at = 0
    /\ dom_left = <<>>
    /\ dom_done = 0
    /\ responses = 0
    /\ page_open = TRUE
    /\ csv = <<>>
    /\ xpc = "json"
    /\ json_products = <<>>
    /\ html_products = <<>>
    /\ js_products = <<>>
    /\ products = <<>>
    /\ unique_products = <<>>
    /\ ran = <<>>
    /\ ended = [s \in Strategies |-> "pending"]
    /\ alone = {}
    /\ spc = "tab1"
    /\ bound_names = {}
    /\ pagination = FALSE
    /\ max_pages = 1
    /\ browser_open = FALSE
    /\ current_url = StartUrl
    /\ pages_scraped = 0
    /\ all_data = <<>>
    /\ next_resolved = FALSE
    /\ next_page_link = NoElement
    /\ goto_failed_at = 0
    /\ status = "none"
    /\ scraped_data = <<>>
    /\ history = <<>>
    /\ dpc = "button"
    /\ site_profile = "Auto-detect"
    /\ selectors = site_selectors["Generic"]
    /\ current_selectors = site_selectors["Generic"]
    /\ detected_first = "unset"
    /\ detected_type = "unset"
    /\ detect_calls = 0
    /\ page_content = <<>>
    /\ page_url = <<>>
    /\ detect_input = NoInput
    /\ queried = {}
    /\ prev_detection = NoDetection
    /\ session = [s \in Sessions |-> NewRun(1)]
    /\ ppc = "query"
    /\ matched = NoMatches
    /\ tried = <<>>
    /\ page_items = <<>>
    /\ items_read = <<>>
    /\ page_data = <<>>
    /\ img_elem = NoImg
    /\ img_url = "unset"
    /\ image_url = "unset"
    /\ upc = "popups"
    /\ popup_page = NoPopups
    /\ clicked = <<>>
    /\ driver = 0
    /\ live = {}
    /\ created = 0
    /\ calls = <<>>
    /\ agent_pc = "loop"
    /\ running = TRUE
    /\ iterations = <<>>
    /\ close_calls = 0

SpecPage == InitPage /\ [][PNext]_vars

\* A container holds any image element of the model; neither program has
\* read it yet.
InitImage ==
    /\ apc = "goto"
    /\ data = <<>>
    /\ captcha = FALSE
    /\ shots = {}
    /\ scrolls = 0
    /\ stalled_at = 0
    /\ dom_left = <<>>
    /\ dom_done = 0
    /\ responses = 0
    /\ page_open = TRUE
    /\ csv = <<>>
    /\ xpc = "json"
    /\ json_products = <<>>
    /\ html_products = <<>>
    /\ js_products = <<>>
    /\ products = <<>>
    /\ unique_products = <<>>
    /\ ran = <<>>
    /\ ended = [s \in Strategies |-> "pending"]
    /\ alone = {}
    /\ spc = "tab1"
    /\ bound_names = {}
    /\ pagination = FALSE
    /\ max_pages = 1
    /\ browser_open = FALSE
    /\ current_url = StartUrl
    /\ pages_scraped = 0
    /\ all_data = <<>>
    /\ next_resolved = FALSE
    /\ next_page_link = NoElement
    /\ goto_failed_at = 0
    /\ status = "none"
    /\ scraped_data = <<>>
    /\ history = <<>>
    /\ dpc = "button"
    /\ site_profile = "Auto-detect"
    /\ selectors = site_selectors["Generic"]
    /\ current_selectors = site_selectors["Generic"]
    /\ detected_first = "unset"
    /\ detected_type = "unset"
    /\ detect_calls = 0
    /\ page_content = <<>>
    /\ page_url = <<>>
    /\ detect_input = NoInput
    /\ queried = {}
    /\ prev_detection = NoDetection
    /\ session = [s \in Sessions |-> NewRun(1)]
    /\ ppc = "query"
    /\ matched = NoMatches
    /\ tried = <<>>
    /\ page_items = <<>>
    /\ items_read = <<>>
    /\ page_data = <<>>
    /\ img_elem \in Images
    /\ img_url = "unset"
    /\ image_url = "unset"
    /\ upc = "popups"
    /\ popup_page = NoPopups
    /\ clicked = <<>>
    /\ driver = 0
    /\ live = {}
    /\ created = 0
    /\ calls = <<>>
    /\ agent_pc = "loop"
    /\ running = TRUE
    /\ iterations = <<>>
    /\ close_calls = 0

SpecImage == InitImage /\ [][INext]_vars

\* An iteration of the page loop has waited for the page and reaches the
\* dismiss loop.
InitPopups ==
    /\ apc = "goto"
    /\ data = <<>>
    /\ captcha = FALSE
    /\ shots = {}
    /\ scrolls = 0
    /\ stalled_at = 0
    /\ dom_left = <<>>
    /\ dom_done = 0
    /\ responses = 0
    /\ page_open = TRUE
    /\ csv = <<>>
    /\ xpc = "json"
    /\ json_products = <<>>
    /\ html_products = <<>>
    /\ js_products = <<>>
    /\ products = <<>>
    /\ unique_products = <<>>
    /\ ran = <<>>
    /\ ended = [s \in Strategies |-> "pending"]
    /\ alone = {}
    /\ spc = "tab1"
    /\ bound_names = {}
    /\ pagination = FALSE
    /\ max_pages = 1
    /\ browser_open = FALSE
    /\ current_url = StartUrl
    /\ pages_scraped = 0
    /\ all_data = <<>>
    /\ next_resolved = FALSE
    /\ next_page_link = NoElement
    /\ goto_failed_at = 0
    /\ status = "none"
    /\ scraped_data = <<>>
    /\ history = <<>>
    /\ dpc = "button"
    /\ site_profile = "Auto-detect"
    /\ selectors = site_selectors["Generic"]
    /\ current_selectors = site_selectors["Generic"]
    /\ detected_first = "unset"
    /\ detected_type = "unset"
    /\ detect_calls = 0
    /\ page_content = <<>>
    /\ page_url = <<>>
    /\ detect_input = NoInput
    /\ queried = {}
    /\ prev_detection = NoDetection
    /\ session = [s \in Sessions |-> NewRun(1)]
    /\ ppc = "query"
    /\ matched = NoMatches
    /\ tried = <<>>
    /\ page_items = <<>>
    /\ items_read = <<>>
    /\ page_data = <<>>
    /\ img_elem = NoImg
    /\ img_url = "unset"
    /\ image_url = "unset"
    /\ upc = "popups"
    /\ popup_page = NoPopups
    /\ clicked = <<>>
    /\ driver = 0
    /\ live = {}
    /\ created = 0
    /\ calls = <<>>
    /\ agent_pc = "loop"
    /\ running = TRUE
    /\ iterations = <<>>
    /\ close_calls = 0

SpecPopups == InitPopups /\ [][UNext]_vars

\* An AdidasScraper has been constructed: self.driver is None.
InitDriver ==
    /\ apc = "goto"
    /\ data = <<>>
    /\ captcha = FALSE
    /\ shots = {}
    /\ scrolls = 0
    /\ stalled_at = 0
    /\ dom_left = <<>>
    /\ dom_done = 0
    /\ responses = 0
    /\ page_open = TRUE
    /\ csv = <<>>
    /\ xpc = "json"
    /\ json_products = <<>>
    /\ html_products = <<>>
    /\ js_products = <<>>
    /\ products = <<>>
    /\ unique_products = <<>>
    /\ ran = <<>>
    /\ ended = [s \in Strategies |-> "pending"]
    /\ alone = {}
    /\ spc = "tab1"
    /\ bound_names = {}
    /\ pagination = FALSE
    /\ max_pages = 1
    /\ browser_open = FALSE
    /\ current_url = StartUrl
    /\ pages_scraped = 0
    /\ all_data = <<>>
    /\ next_resolved = FALSE
    /\ next_page_link = NoElement
    /\ goto_failed_at = 0
    /\ status = "none"
    /\ scraped_data = <<>>
    /\ history = <<>>
    /\ dpc = "button"
    /\ site_profile = "Auto-detect"
    /\ selectors = site_selectors["Generic"]
    /\ current_selectors = site_selectors["Generic"]
    /\ detected_first = "unset"
    /\ detected_type = "unset"
    /\ detect_calls = 0
    /\ page_content = <<>>
    /\ page_url = <<>>
    /\ detect_input = NoInput
    /\ queried = {}
    /\ prev_detection = NoDetection
    /\ session = [s \in Sessions |-> NewRun(1)]
    /\ ppc = "query"
    /\ matched = NoMatches
    /\ tried = <<>>
    /\ page_items = <<>>
    /\ items_read = <<>>
    /\ page_data = <<>>
    /\ img_elem = NoImg
    /\ img_url = "unset"
    /\ image_url = "unset"
    /\ upc = "popups"
    /\ popup_page = NoPopups
    /\ clicked = <<>>
    /\ driver = 0
    /\ live = {}
    /\ created = 0
    /\ calls = <<>>
    /\ agent_pc = "loop"
    /\ running = TRUE
    /\ iterations = <<>>
    /\ close_calls = 0

SpecDriver == InitDriver /\ [][GNext]_vars

\* start_interactive has printed its banner and enters the loop.
InitAgent ==
    /\ apc = "goto"
    /\ data = <<>>
    /\ captcha = FALSE
    /\ shots = {}
    /\ scrolls = 0
    /\ stalled_at = 0
    /\ dom_left = <<>>
    /\ dom_done = 0
    /\ responses = 0
    /\ page_open = TRUE
    /\ csv = <<>>
    /\ xpc = "json"
    /\ json_products = <<>>
    /\ html_products = <<>>
    /\ js_products = <<>>
    /\ products = <<>>
    /\ unique_products = <<>>
    /\ ran = <<>>
    /\ ended = [s \in Strategies |-> "pending"]
    /\ alone = {}
    /\ spc = "tab1"
    /\ bound_names = {}
    /\ pagination = FALSE
    /\ max_pages = 1
    /\ browser_open = FALSE
    /\ current_url = StartUrl
    /\ pages_scraped = 0
    /\ all_data = <<>>
    /\ next_resolved = FALSE
    /\ next_page_link = NoElement
    /\ goto_failed_at = 0
    /\ status = "none"
    /\ scraped_data = <<>>
    /\ history = <<>>
    /\ dpc = "button"
    /\ site_profile = "Auto-detect"
    /\ selectors = site_selectors["Generic"]
    /\ current_selectors = site_selectors["Generic"]
    /\ detected_first = "unset"
    /\ detected_type = "unset"
    /\ detect_calls = 0
    /\ page_content = <<>>
    /\ page_url = <<>>
    /\ detect_input = NoInput
    /\ queried = {}
    /\ prev_detection = NoDetection
    /\ session = [s \in Sessions |-> NewRun(1)]
    /\ ppc = "query"
    /\ matched = NoMatches
    /\ tried = <<>>
    /\ page_items = <<>>
    /\ items_read = <<>>
    /\ page_data = <<>>
    /\ img_elem = NoImg
    /\ img_url = "unset"
    /\ image_url = "unset"
    /\ upc = "popups"
    /\ popup_page = NoPopups
    /\ clicked = <<>>
    /\ driver = 0
    /\ live = {}
    /\ created = 0
    /\ calls = <<>>
    /\ agent_pc = "loop"
    /\ running = TRUE
    /\ iterations = <<>>
    /\ close_calls = 0

SpecAgent == InitAgent /\ [][AgentNext]_vars

\* ===========================================================================
\* scrape_asos_data (src/scraper8.py)
\* ===========================================================================

\* range(5): scroll-and-wait cycles before the DOM is read.
ScrollCycles == 5

Min(a, b) == IF a < b THEN a ELSE b
Max(a, b) == IF a > b THEN a ELSE b

\* seq[:n] as Python slices: a negative n counts from the end.
Slice(seq, n) ==
    IF n >= 0 THEN SubSeq(seq, 1, Min(n, Len(seq)))
    ELSE SubSeq(seq, 1, Max(Len(seq) + n, 0))

\* Product names an API payload or a product tile may carry.
ApiNames == {"Shirt", "Top"}

\* An intercepted response whose URL holds "api" and "product": the products
\* of its JSON body, or a body response.json() rejects.
ApiResponses ==
    { [parsable |-> FALSE, products |-> <<>>] }
    \cup { [parsable |-> TRUE, products |-> s] : s \in SeqsUpTo(ApiNames, MaxApiProducts) }

\* A product tile of the DOM: the text of its name element (None: no such
\* element) and whether reading it raises.
DomTiles ==
    { [name_element |-> " Shirt ", raises |-> FALSE],
      [name_element |-> None,      raises |-> FALSE],
      [name_element |-> " Shirt ", raises |-> TRUE] }

\* name.strip() on the texts of the model.
Strip(text) == IF text = " Shirt " THEN "Shirt" ELSE text

\* The record handle_response appends for one product of the payload.
ApiRecord(name) == [name |-> name, image_path |-> ""]

\* The record the DOM loop appends for one tile.
DomRecord(tile) ==
    [name       |-> Strip(IF tile.name_element # None THEN tile.name_element ELSE "Unknown"),
     image_path |-> "images/dom.jpg"]

\* handle_response on the shared list: products[:max_items - len(data)].
handle_response(list, resp) ==
    IF ~resp.parsable THEN list
    ELSE LET taken == Slice(resp.products, max_items - Len(list)) IN
         list \o [i \in DOMAIN taken |-> ApiRecord(taken[i])]

\* The awaits of the try block at which the browser is open and a response
\* event can be dispatched to handle_response.
AwaitPoints ==
    {"goto", "captcha_check", "captcha_shot", "wait_idle", "wait_products", "scroll",
     "query", "dom", "timeout_dump", "error_shot"}

\* page.on("response", handle_response): a response arrives while
\* scrape_asos_data is suspended at an await.
HandleResponse ==
    /\ apc \in AwaitPoints
    /\ page_open
    /\ responses < MaxResponses
    /\ responses' = responses + 1
    /\ \E resp \in ApiResponses : data' = handle_response(data, resp)
    /\ UNCHANGED <<apc, captcha, shots, scrolls, stalled_at, dom_left, dom_done, page_open, csv>>
    /\ UNCHANGED <<xvars, bvars, dvars, session, pvars, ivars, uvars, gvars>>

\* await page.goto(base_url): the page loads (with or without a robot
\* challenge), the navigation times out, or it fails otherwise.
Goto ==
    /\ apc = "goto"
    /\ \E outcome \in {"loaded", "challenge", "timeout", "error"} :
         /\ captcha' = (outcome = "challenge")
         /\ apc' = CASE outcome = "timeout" -> "timeout_dump"
                     [] outcome = "error"   -> "error_shot"
                     [] OTHER               -> "captcha_check"
    /\ UNCHANGED <<data, shots, scrolls, stalled_at, dom_left, dom_done, responses, page_open, csv>>
    /\ UNCHANGED <<xvars, bvars, dvars, session, pvars, ivars, uvars, gvars>>

\* The CAPTCHA query: a match leads to the screenshot and the raise.
CaptchaCheck ==
    /\ apc = "captcha_check"
    /\ apc' = IF captcha THEN "captcha_shot" ELSE "wait_idle"
    /\ UNCHANGED <<data, captcha, shots, scrolls, stalled_at, dom_left, dom_done, responses,
                   page_open, csv>>
    /\ UNCHANGED <<xvars, bvars, dvars, session, pvars, ivars, uvars, gvars>>

\* await page.screenshot(path="captcha_screenshot.png"), then raise Exception,
\* which the generic except branch catches.
CaptchaShot ==
    /\ apc = "captcha_shot"
    /\ shots' = shots \cup {"captcha_screenshot.png"}
    /\ apc' = "error_shot"
    /\ UNCHANGED <<data, captcha, scrolls, stalled_at, dom_left, dom_done, responses, page_open, csv>>
    /\ UNCHANGED <<xvars, bvars, dvars, session, pvars, ivars, uvars, gvars>>

\* wait_for_load_state("networkidle") and wait_for_function(product grid):
\* either may time out.
WaitIdle ==
    /\ apc = "wait_idle"
    /\ \E ok \in BOOLEAN : apc' = IF ok THEN "wait_products" ELSE "timeout_dump"
    /\ UNCHANGED <<data, captcha, shots, scrolls, stalled_at, dom_left, dom_done, responses,
                   page_open, csv>>
    /\ UNCHANGED <<xvars, bvars, dvars, session, pvars, ivars, uvars, gvars>>

WaitProducts ==
    /\ apc = "wait_products"
    /\ \E ok \in BOOLEAN : apc' = IF ok THEN "scroll" ELSE "timeout_dump"
    /\ UNCHANGED <<data, captcha, shots, scrolls, stalled_at, dom_left, dom_done, responses,
                   page_open, csv>>
    /\ UNCHANGED <<xvars, bvars, dvars, session, pvars, ivars, uvars, gvars>>

\* One cycle of `for _ in range(5)`: scroll to the bottom, sleep 3 s. The
\* page height after the cycle has grown or not; the loop does not read it.
Scroll ==
    /\ apc = "scroll"
    /\ scrolls' = scrolls + 1
    /\ \E grew \in BOOLEAN :
         stalled_at' = IF ~grew /\ stalled_at = 0 THEN scrolls + 1 ELSE stalled_at
    /\ apc' = IF scrolls + 1 = ScrollCycles THEN "query" ELSE "scroll"
    /\ UNCHANGED <<data, captcha, shots, dom_left, dom_done, responses, page_open, csv>>
    /\ UNCHANGED <<xvars, bvars, dvars, session, pvars, ivars, uvars, gvars>>

\* query_selector_all, and the slice the for loop iterates over, taken once.
QueryDom ==
    /\ apc = "query"
    /\ \E product_elements \in SeqsUpTo(DomTiles, MaxDom) :
         dom_left' = Slice(product_elements, max_items - Len(data))
    /\ apc' = "dom"
    /\ UNCHANGED <<data, captcha, shots, scrolls, stalled_at, dom_done, responses, page_open, csv>>
    /\ UNCHANGED <<xvars, bvars, dvars, session, pvars, ivars, uvars, gvars>>

\* One iteration of the DOM loop: the record is appended unless a record of
\* the same name is in data; a tile that raises is reported and skipped.
DomItem ==
    /\ apc = "dom"
    /\ dom_left # <<>>
    /\ LET tile == Head(dom_left)
           rec  == DomRecord(tile)
       IN data' = IF tile.raises \/ (\E i \in DOMAIN data : data[i].name = rec.name)
                  THEN data
                  ELSE Append(data, rec)
    /\ dom_left' = Tail(dom_left)
    /\ dom_done' = dom_done + 1
    /\ UNCHANGED <<apc, captcha, shots, scrolls, stalled_at, responses, page_open, csv>>
    /\ UNCHANGED <<xvars, bvars, dvars, session, pvars, ivars, uvars, gvars>>

\* The loop is over: finally closes the browser.
DomEnd ==
    /\ apc = "dom"
    /\ dom_left = <<>>
    /\ page_open' = FALSE
    /\ apc' = "post"
    /\ UNCHANGED <<data, captcha, shots, scrolls, stalled_at, dom_left, dom_done, responses, csv>>
    /\ UNCHANGED <<xvars, bvars, dvars, session, pvars, ivars, uvars, gvars>>

\* except PlaywrightTimeoutError: dump the page (or take a screenshot when the
\* dump fails), then raise; finally closes the browser and the exception
\* leaves scrape_asos_data.
TimeoutDump ==
    /\ apc = "timeout_dump"
    /\ \E dumped \in BOOLEAN :
         shots' = IF dumped THEN shots ELSE shots \cup {"debug_screenshot.png"}
    /\ page_open' = FALSE
    /\ apc' = "raised"
    /\ UNCHANGED <<data, captcha, scrolls, stalled_at, dom_left, dom_done, responses, csv>>
    /\ UNCHANGED <<xvars, bvars, dvars, session, pvars, ivars, uvars, gvars>>

\* except Exception: report, take error_screenshot.png; finally closes the
\* browser.
ErrorShot ==
    /\ apc = "error_shot"
    /\ shots' = shots \cup {"error_screenshot.png"}
    /\ page_open' = FALSE
    /\ apc' = "post"
    /\ UNCHANGED <<data, captcha, scrolls, stalled_at, dom_left, dom_done, responses, csv>>
    /\ UNCHANGED <<xvars, bvars, dvars, session, pvars, ivars, uvars, gvars>>

\* After the browser block: the images of API records are downloaded, then
\* the CSV is written when data is not empty.
SaveCsv ==
    /\ apc = "post"
    /\ \E got \in [{ i \in DOMAIN data : data[i].image_path = "" }
                      -> {"images/api.jpg", "Error"}] :
         data' = [i \in DOMAIN data |->
                    IF data[i].image_path = ""
                    THEN [data[i] EXCEPT !.image_path = got[i]]
                    ELSE data[i]]
    /\ csv' = data'
    /\ apc' = "done"
    /\ UNCHANGED <<captcha, shots, scrolls, stalled_at, dom_left, dom_done, responses, page_open>>
    /\ UNCHANGED <<xvars, bvars, dvars, session, pvars, ivars, uvars, gvars>>

ANext ==
    \/ HandleResponse \/ Goto \/ CaptchaCheck \/ CaptchaShot \/ WaitIdle \/ WaitProducts
    \/ Scroll \/ QueryDom \/ DomItem \/ DomEnd \/ TimeoutDump \/ ErrorShot \/ SaveCsv

\* scrape_asos_data has attached the response handler and starts to navigate.
InitAsos ==
    /\ apc = "goto"
    /\ data = <<>>
    /\ captcha = FALSE
    /\ shots = {}
    /\ scrolls = 0
    /\ stalled_at = 0
    /\ dom_left = <<>>
    /\ dom_done = 0
    /\ responses = 0
    /\ page_open = TRUE
    /\ csv = <<>>
    /\ xpc = "json"
    /\ json_products = <<>>
    /\ html_products = <<>>
    /\ js_products = <<>>
    /\ products = <<>>
    /\ unique_products = <<>>
    /\ ran = <<>>
    /\ ended = [s \in Strategies |-> "pending"]
    /\ alone = {}
    /\ spc = "tab1"
    /\ bound_names = {}
    /\ pagination = FALSE
    /\ max_pages = 1
    /\ browser_open = FALSE
    /\ current_url = StartUrl
    /\ pages_scraped = 0
    /\ all_data = <<>>
    /\ next_resolved = FALSE
    /\ next_page_link = NoElement
    /\ goto_failed_at = 0
    /\ status = "none"
    /\ scraped_data = <<>>
    /\ history = <<>>
    /\ dpc = "button"
    /\ site_profile = "Auto-detect"
    /\ selectors = site_selectors["Generic"]
    /\ current_selectors = site_selectors["Generic"]
    /\ detected_first = "unset"
    /\ detected_type = "unset"
    /\ detect_calls = 0
    /\ page_content = <<>>
    /\ page_url = <<>>
    /\ detect_input = NoInput
    /\ queried = {}
    /\ prev_detection = NoDetection
    /\ session = [s \in Sessions |-> NewRun(1)]
    /\ ppc = "query"
    /\ matched = NoMatches
    /\ tried = <<>>
    /\ page_items = <<>>
    /\ items_read = <<>>
    /\ page_data = <<>>
    /\ img_elem = NoImg
    /\ img_url = "unset"
    /\ image_url = "unset"
    /\ upc = "popups"
    /\ popup_page = NoPopups
    /\ clicked = <<>>
    /\ driver = 0
    /\ live = {}
    /\ created = 0
    /\ calls = <<>>
    /\ agent_pc = "loop"
    /\ running = TRUE
    /\ iterations = <<>>
    /\ close_calls = 0

SpecAsos == InitAsos /\ [][ANext]_vars

\* ---------------------------------------------------------------------------
\* Properties of scrape_asos_data
\* ---------------------------------------------------------------------------

\* C10: when the loaded page shows a robot challenge the run ends with the
\* CAPTCHA screenshot requested, no scroll cycle and no DOM extraction done on
\* the page, and no record of the challenged page in the result.
C10_CaptchaAborts ==
    (apc = "done" /\ captcha)
        => /\ "captcha_screenshot.png" \in shots
           /\ scrolls = 0
           /\ dom_done = 0
           /\ data = <<>>
           /\ csv = <<>>

\* C11: the number of records of a run never exceeds the item cap max_items,
\* in the shared list and in the rows written to the CSV, for every arrival
\* order and size of the intercepted payloads and every number of DOM tiles.
C11_ItemCap ==
    /\ Len(data) <= max_items
    /\ Len(csv) <= max_items

\* ---------------------------------------------------------------------------
\* Helpers of the properties
\* ---------------------------------------------------------------------------
Keys(list) == { Identifier(list[i]) : i \in DOMAIN list }

\* The indices of `list` holding the first occurrence of a non-empty key.
FirstIdx(list) ==
    { i \in DOMAIN list :
        /\ Identifier(list[i]) # ""
        /\ \A j \in 1..(i-1) : Identifier(list[j]) # Identifier(list[i]) }

\* The k-th smallest element of a set of naturals.
Kth(S, k) == CHOOSE i \in S : Cardinality({ j \in S : j <= i }) = k

\* C2: first-seen-wins. Every record _extract_products returns is, field for
\* field, the earliest draft carrying its identifier, and that identifier is
\* held by no other returned record (later sightings are dropped, not merged).
C2_FirstSeenWins ==
    xpc = "done" =>
        \A i \in DOMAIN unique_products :
            LET k     == Identifier(unique_products[i])
                first == Kth({ j \in DOMAIN products : Identifier(products[j]) = k }, 1)
            IN /\ unique_products[i] = products[first]
               /\ Cardinality({ j \in DOMAIN unique_products :
                                  Identifier(unique_products[j]) = k }) = 1

C2_Witness ==
    /\ xpc = "done"
    /\ \E i, j \in DOMAIN products :
         /\ i < j
         /\ Identifier(products[i]) # ""
         /\ Identifier(products[i]) = Identifier(products[j])
         /\ products[i] # products[j]
         /\ products[i].name # products[j].name
         /\ products[i].price # products[j].price

\* C3: the returned list is the subsequence of json ++ html ++ js drafts made
\* of the first occurrence of every identifier, in that order; JSON drafts
\* A, B with HTML drafts A, C give [A (JSON fields), B, C].
C3_FirstOccurrenceOrder ==
    xpc = "done" =>
        /\ products = json_products \o html_products \o js_products
        /\ Len(unique_products) = Cardinality(FirstIdx(products))
        /\ \A k \in DOMAIN unique_products :
              unique_products[k] = products[Kth(FirstIdx(products), k)]
        /\ ( /\ [i \in DOMAIN json_products |-> json_products[i].url]
                  = <<base_url \o "/A.html", base_url \o "/B.html">>
             /\ [i \in DOMAIN html_products |-> html_products[i].url]
                  = <<base_url \o "/A.html", Origin \o "/us/C.html">>
             /\ js_products = <<>>
             => unique_products = <<json_products[1], json_products[2], html_products[2]>> )

C3_Witness ==
    /\ xpc = "done"
    /\ [i \in DOMAIN json_products |-> json_products[i].url]
          = <<base_url \o "/A.html", base_url \o "/B.html">>
    /\ [i \in DOMAIN html_products |-> html_products[i].url]
          = <<base_url \o "/A.html", Origin \o "/us/C.html">>
    /\ js_products = <<>>
    /\ Len(unique_products) = 3
    /\ unique_products[1].price = "$10"

\* C5: dedup idempotence. Merging the returned list again changes nothing, and
\* merging the drafts followed by the same drafts again gives the same list.
C5_DedupIdempotent ==
    xpc = "done" =>
        /\ Deduplicate(unique_products) = unique_products
        /\ Deduplicate(products \o products) = unique_products

C5_Witness ==
    /\ xpc = "done"
    /\ Len(unique_products) >= 2
    /\ Len(products) > Len(unique_products)

StrategyOrder == <<"json", "html", "js">>

\* The drafts a strategy gave in the call at hand.
DraftsOf(s) ==
    CASE s = "json" -> json_products
      [] s = "html" -> html_products
      [] OTHER      -> js_products

\* C15: _extract_products runs the strategies in the order embedded JSON,
\* HTML, page script, each at most once in a call, and the concatenated
\* drafts keep that order: every JSON draft is placed before every HTML
\* draft, which is placed before every page-script draft.
C15_StrategyOrder ==
    /\ ran = SubSeq(StrategyOrder, 1, Len(ran))
    /\ Len(ran) = CASE xpc = "json" -> 0
                     [] xpc = "html" -> 1
                     [] xpc = "js"   -> 2
                     [] OTHER        -> 3
    /\ Len(products) = Len(json_products) + Len(html_products) + Len(js_products)
    /\ \A i \in DOMAIN json_products : products[i] = json_products[i]
    /\ \A i \in DOMAIN html_products :
          products[Len(json_products) + i] = html_products[i]
    /\ \A i \in DOMAIN js_products :
          products[Len(json_products) + Len(html_products) + i] = js_products[i]

C15_Witness ==
    /\ xpc = "done"
    /\ ran = StrategyOrder
    /\ json_products # <<>>
    /\ html_products # <<>>
    /\ js_products # <<>>

\* C16: strategy isolation. Whichever strategy ends with a caught exception,
\* a malformed payload or no drafts, the call still runs all three strategies
\* and every identified draft of the other strategies is in the returned list.
C16_StrategyIsolation ==
    /\ (xpc = "html" /\ ended["json"] # "ok") => ran = <<"json">>
    /\ (xpc = "js" /\ ended["html"] # "ok") => ran = <<"json", "html">>
    /\ xpc = "done" =>
          /\ ran = StrategyOrder
          /\ \A s \in Failed(ended) :
                \A t \in Strategies \ {s} :
                    \A i \in DOMAIN DraftsOf(t) :
                        Identifier(DraftsOf(t)[i]) # ""
                            => Identifier(DraftsOf(t)[i]) \in Keys(unique_products)

\* Each of the three strategies has been the only one to fail in a finished
\* call, and the call at hand lost the page script to an exception while the
\* JSON and HTML drafts were returned.
C16_Witness ==
    /\ xpc = "done"
    /\ alone = Strategies
    /\ ended = [s \in Strategies |-> IF s = "js" THEN "exception" ELSE "ok"]
    /\ Len(unique_products) >= 2

\* ---------------------------------------------------------------------------
\* Properties of scrape_fashion_site
\* ---------------------------------------------------------------------------
Placeholders == {"", "N/A"}

\* DedupKey: the product URL when there is one, otherwise the title.
DedupKey(r) == IF r.ProductURL \notin Placeholders THEN r.ProductURL ELSE r.Title

\* C1: within the records of one crawl session no two records have the same
\* DedupKey: a product sighted on two pages, or twice on a page, is kept once.
C1_NoDuplicateKeys ==
    \A i, j \in DOMAIN all_data :
        (i < j /\ DedupKey(all_data[i]) \notin Placeholders)
            => DedupKey(all_data[i]) # DedupKey(all_data[j])

\* C4: every retained record has a real title or a real product URL; the
\* placeholder "N/A" counts as neither.
C4_MinimalField ==
    \A i \in DOMAIN all_data :
        \/ all_data[i].Title \notin Placeholders
        \/ all_data[i].ProductURL \notin Placeholders

\* C6: with pagination enabled and max_pages = N >= 1 the loop extracts from
\* at most N pages, however many next-page links resolve.
C6_BudgetRespect ==
    pagination =>
        /\ pages_scraped <= max_pages
        /\ \A i \in DOMAIN all_data : all_data[i].PageNumber <= max_pages

C6_Witness ==
    /\ pagination
    /\ spc = "finished"
    /\ max_pages >= 2
    /\ pages_scraped = max_pages
    /\ next_resolved
    /\ current_url = StartUrl
    /\ goto_failed_at = 0

\* C7: when the next_page selector never resolves and the page yields items
\* with valid titles, the driver extracts exactly one page and ends with status
\* OK, the result holding exactly the items of that page.
C7_OnePageThenOK ==
    ( /\ spc = "finished"
      /\ ~next_resolved
      /\ pages_scraped >= 1
      /\ all_data # <<>>
      /\ \A i \in DOMAIN all_data : all_data[i].Title \notin Placeholders )
        => /\ pages_scraped = 1
           /\ status = "OK"
           /\ scraped_data = all_data

\* C8: a session that accumulated at least one record hands the accumulated
\* records to its caller, whatever failed afterwards.
C8_NoLostResults ==
    (spc = "finished" /\ all_data # <<>>) => scraped_data = all_data

\* C9: a navigation timeout on page k > 1 does not fail the session: the
\* records of pages 1..k-1 are still returned.
C9_TimeoutKeepsResults ==
    (spc = "finished" /\ goto_failed_at > 1 /\ all_data # <<>>)
        => /\ status # "ERROR"
           /\ scraped_data = all_data

\* C17: a session that ends without abort reports NO_ITEMS_FOUND when it
\* collected no record and OK when it collected at least one (here: records
\* with a real title), and it reports one of the terminal statuses.
C17_TerminalStatus ==
    (spc = "finished" /\ goto_failed_at = 0)
        => /\ status \in {"OK", "NO_ITEMS_FOUND", "ERROR"}
           /\ all_data = <<>> => status = "NO_ITEMS_FOUND"
           /\ ( /\ all_data # <<>>
                /\ \A i \in DOMAIN all_data : all_data[i].Title \notin Placeholders )
                 => status = "OK"

\* C19: every started pagination loop reaches its end, for every page graph
\* (next links leading back to a visited page included) and every setting.
C19_Terminates == (spc = "loop") ~> (spc = "finished")

C19_Witness ==
    /\ spc = "finished"
    /\ pagination
    /\ pages_scraped >= 2
    /\ next_page_link = RelHref("/list")
    /\ \E i, j \in DOMAIN all_data :
          /\ all_data[i].PageNumber = 1
          /\ all_data[j].PageNumber = 2
          /\ all_data[i].ProductURL = all_data[j].ProductURL

\* C20: after a page is extracted the loop goes on to another page exactly
\* when pagination is enabled, the pages visited are fewer than max_pages and
\* the next_page selector found an element with a non-empty href; it then
\* navigates to the URL resolved from that href, and every page loaded
\* raises the page number by exactly 1. Otherwise the loop stops, and after
\* it stopped no page is loaded or extracted.
C20_Deciding ==
    [][ /\ spc = "loop" =>
            LET advance == /\ pagination
                           /\ pages_scraped' < max_pages
                           /\ next_page_link'.kind \in {"rel", "abs"}
            IN /\ pages_scraped' = pages_scraped + 1
               /\ advance =>
                     /\ current_url' = urljoin(SiteOrigin, next_page_link')
                     /\ (goto_failed_at' = 0) = (spc' = "loop")
               /\ ~advance =>
                     /\ spc' = "finished"
                     /\ current_url' = current_url
                     /\ goto_failed_at' = 0
        /\ spc = "finished" =>
               /\ pages_scraped' = pages_scraped
               /\ all_data' = all_data
               /\ current_url' = current_url
      ]_vars

C20_Witness ==
    /\ spc = "finished"
    /\ goto_failed_at = 0
    /\ pagination
    /\ max_pages = 2
    /\ pages_scraped = 2
    /\ current_url = SiteOrigin \o "/list2"
    /\ next_page_link = RelHref("/list2")
    /\ Len(all_data) = 2

\* ---------------------------------------------------------------------------
\* Properties of profile resolution
\* ---------------------------------------------------------------------------

\* The selectors of a bundle.
BundleSelectors(name) ==
    { site_selectors[name].items, site_selectors[name].title,
      site_selectors[name].link, site_selectors[name].next_page }

\* The fingerprints in their order: the marker and where it is looked for.
FingerprintOrder ==
    << [name |-> "Shopify",      where |-> "text", marker |-> "shopify"],
       [name |-> "WooCommerce",  where |-> "text", marker |-> "woocommerce"],
       [name |-> "Magento",      where |-> "text", marker |-> "magento"],
       [name |-> "Fashion Nova", where |-> "url",  marker |-> "fashionnova"],
       [name |-> "ASOS",         where |-> "url",  marker |-> "asos"],
       [name |-> "Zara",         where |-> "url",  marker |-> "zara"] >>

\* The fingerprints that match the lowercased page text or URL.
Hits(input) ==
    { i \in DOMAIN FingerprintOrder :
        Contains(Lowered(IF FingerprintOrder[i].where = "text"
                         THEN input.content ELSE input.url),
                 FingerprintOrder[i].marker) }

C21_StrategiesSequential ==
    [][ (apc = "dom" /\ dom_left # <<>> /\ Len(data') > Len(data))
            => dom_done' = dom_done + 1 ]_vars

\* ---------------------------------------------------------------------------
\* Properties of one iteration of the page loop
\* ---------------------------------------------------------------------------

\* The fallbacks that match at least one container on the page.
MatchingFallbacks == { k \in DOMAIN fallback_selectors : matched.fallback[k] > 0 }

\* The first of them in the fixed order.
FirstFallback == CHOOSE k \in MatchingFallbacks : \A j \in MatchingFallbacks : k <= j

\* C22: the containers of the bundle's items selector are used when it matches
\* at least one; only when it matches none are the fallback selectors queried,
\* in their fixed order up to the first that matches, whose containers are
\* used; when none matches the page yields no record and the iteration still
\* reaches the extend step.
C22_ContainerSelection ==
    ppc # "query"
        => /\ matched.bundle > 0
                => /\ tried = <<current_selectors.items>>
                   /\ page_items = query_selector_all(current_selectors.items,
                                                      matched.bundle)
           /\ (matched.bundle = 0 /\ MatchingFallbacks # {})
                => /\ tried = <<current_selectors.items>>
                                 \o SubSeq(fallback_selectors, 1, FirstFallback)
                   /\ page_items = query_selector_all(fallback_selectors[FirstFallback],
                                                      matched.fallback[FirstFallback])
           /\ (matched.bundle = 0 /\ MatchingFallbacks = {})
                => /\ tried = <<current_selectors.items>> \o fallback_selectors
                   /\ page_items = <<>>
                   /\ page_data = <<>>
                   /\ ppc \in {"items", "extended"}
                   /\ ENABLED ExtendAllData \/ ppc = "extended"

\* The third fallback is the first that matches while the fourth matches too,
\* and its two containers were extracted.
C22_Witness ==
    /\ ppc = "extended"
    /\ matched.bundle = 0
    /\ MatchingFallbacks # {}
    /\ FirstFallback = 3
    /\ matched.fallback[4] > 0
    /\ Len(page_items) = 2
    /\ Len(page_data) = 2

\* The containers read so far that did not raise, in order.
Kept == SelectSeq(items_read, LAMBDA c : ~c.raises)

C27_OnSaleConsistent ==
    \A i \in DOMAIN page_data :
        LET c == Kept[i]
            r == page_data[i]
        IN /\ r.OnSale = "Yes"
                => /\ r.SalePrice \notin {"N/A", ""}
                   /\ r.SalePrice # r.RegularPrice
           /\ (c.sale_price_el = None /\ r.RegularPrice = r.Price)
                => /\ r.OnSale = "No"
                   /\ r.SalePrice = "N/A"

\* The image URL of the priority rule: the first of src, data-src and srcset
\* that holds a non-empty value, the first URL token of a source-set, and ""
\* when none holds a value.
PriorityImage(img) ==
    IF ~img.present THEN ""
    ELSE IF img.attrs[1] \notin {None, ""} THEN img.attrs[1]
    ELSE IF img.attrs[2] \notin {None, ""} THEN img.attrs[2]
    ELSE IF img.attrs[3] \notin {None, ""} THEN FirstUrlToken(img.attrs[3])
    ELSE ""

\* C24: the image URL either program extracts is the value of the first
\* attribute in the order src, data-src, srcset that holds a non-empty value
\* (the first URL token of a source-set); an attribute that is present but
\* empty does not stop the search; with no value the image URL is empty (the
\* placeholder, for scrape_fashion_site, which also makes the URL absolute).
C24_ImagePriority ==
    /\ image_url # "unset" => image_url = PriorityImage(img_elem)
    /\ (img_url # "unset" /\ img_elem.attrs[4] = None /\ img_elem.attrs[5] = None)
          => IF PriorityImage(img_elem) = "" THEN img_url \in Placeholders
             ELSE img_url \in { PriorityImage(img_elem),
                                SiteOrigin \o PriorityImage(img_elem) }


\* C25: the reveal step performs at most 5 scroll-and-wait cycles and stops
\* at the first cycle after which the page height is what it was before the
\* cycle: no cycle is performed after that one.
C25_RevealStopsEarly ==
    /\ scrolls <= ScrollCycles
    /\ stalled_at > 0 => scrolls = stalled_at

\* ---------------------------------------------------------------------------
\* Properties of the popup dismissal
\* ---------------------------------------------------------------------------

\* C26: once the dismiss loop is over, every control of the page other than
\* one whose click failed has been clicked exactly once, and the iteration
\* goes on to the scroll and the item query.
C26_BestEffortPerControl ==
    upc # "popups"
        => /\ \A n \in DOMAIN Controls(popup_page.matches) :
                LET c == Controls(popup_page.matches)[n]
                IN c # popup_page.failing
                     => Cardinality({ j \in DOMAIN clicked : clicked[j] = c }) = 1
           /\ upc \in {"scroll", "query"}

\* ---------------------------------------------------------------------------
\* Properties of the browser of a scrape run
\* ---------------------------------------------------------------------------

C29_SingleDriver ==
    [][ Len(calls') = Len(calls) + 1
          => LET call == calls'[Len(calls')] IN
             /\ Cardinality(live') <= 1
             /\ live' = IF driver' = 0 THEN {} ELSE {driver'}
             /\ created' # created
                  => /\ call.op \in DriverOps
                     /\ driver = 0
                     /\ created' = created + 1
                     /\ driver' = created'
                     /\ driver' \notin live
             /\ call.op = "close_driver"
                  => /\ driver' = 0
                     /\ live' = live \ {driver}
                     /\ created' = created
                     /\ driver = 0 => live' = live
             /\ (call.op \in DriverOps /\ driver # 0)
                  => driver' = driver /\ live' = live
             /\ (call.op \in DriverOps /\ driver = 0 /\ call.outcome # "init_raised")
                  => driver' # 0
      ]_vars

\* A search created the first driver, close_driver quit it, and the trending
\* call after it created the second, which is the only live one.
C29_Witness ==
    /\ Len(calls) = 3
    /\ calls[1].op = "search_products" /\ calls[1].outcome = "raised"
    /\ calls[2].op = "close_driver"
    /\ calls[3].op = "get_trending_products" /\ calls[3].outcome = "returned"
    /\ driver = 2
    /\ live = {2}
    /\ created = 2

\* ---------------------------------------------------------------------------
\* Properties of AdidasAgent.start_interactive
\* ---------------------------------------------------------------------------

\* The latest iteration of the loop in the next state.
LatestIteration == iterations'[Len(iterations')]

\* C30: an iteration leaves the loop exactly when it ran the exit command or a
\* KeyboardInterrupt reached it: an empty line, an unknown command, a failed
\* input, a handler that returned (other than exit_command) or raised keep
\* the loop running; close_driver is called once, after the loop, and no
\* driver is live when start_interactive has returned.
C30_LoopEndsOnExitOnly ==
    [][ /\ agent_pc = "loop"
            => /\ close_calls' = close_calls
               /\ agent_pc' \in {"loop", "cleanup"}
               /\ agent_pc' = "cleanup"
                    <=> \/ LatestIteration.outcome \in Interrupts
                        \/ /\ LatestIteration.line.cmd = "exit"
                           /\ LatestIteration.outcome = "returned"
               /\ running' = (agent_pc' = "loop")
        /\ agent_pc = "cleanup"
            => /\ agent_pc' = "returned"
               /\ close_calls' = 1
               /\ driver' = 0
               /\ live' = {}
      ]_vars

\* A search whose handler raised left a driver behind, an empty line and then
\* the exit command followed, and the clean-up quit the driver.
C30_Witness ==
    /\ agent_pc = "returned"
    /\ Len(iterations) = 3
    /\ iterations[1].line.cmd = "search" /\ iterations[1].outcome = "raised"
    /\ iterations[2].line.cmd = "" /\ iterations[2].outcome = "skipped"
    /\ iterations[3].line.cmd = "exit"
    /\ created = 1
    /\ live = {}
    /\ close_calls = 1
====
